---------------------------- MODULE Spec2Model ----------------------------
(***************************************************************************)
(* Model of the in-memory relational engine: Table (row storage,           *)
(* constraints, per-column hash indexes), the condition evaluator, the     *)
(* query planner and the UPDATE / DELETE / SELECT paths of the executor.   *)
(*                                                                         *)
(* Values.  Python values are encoded as integers:                         *)
(*   NULL (None) is 0, the INTEGER values are 1..9, the strings are 11..19 *)
(* so that equality is Python's ==, and the kind of a value (isinstance)   *)
(* is recoverable.  True / False returned by a method are 1 / 0 (bool is a *)
(* subclass of int in Python), "no return value" is -1.                    *)
(***************************************************************************)
EXTENDS Integers, Sequences, FiniteSets, TLC

VARIABLES
    columns,            \* Table.columns : column name -> Column
    _rows,              \* Table._rows : list of row dicts (with '_row_id')
    _next_row_id,       \* Table._next_row_id
    _deleted_row_ids,   \* Table._deleted_row_ids
    _indexes,           \* Table._indexes : column name -> HashIndex._index
    _tables,            \* Database._tables : table name -> Table
    _index,             \* HashIndex._index of an index used on its own
    op,                 \* the last call: name and arguments summary
    raised,             \* exception class the last call raised, "None" if none
    returned            \* value the last call returned (-1: nothing)

vars == <<columns, _rows, _next_row_id, _deleted_row_ids, _indexes, _tables, _index,
          op, raised, returned>>

-----------------------------------------------------------------------------
(* Bounds and input sets *)

MaxRows == 2            \* insert_row is explored while _next_row_id < MaxRows

NULL == 0
IntValues == {1, 2}
StrValues == {11}
\* values: integers 1..9, strings 11..19 (a string of v - 10 characters),
\* floats 21..29, False 30 and True 31
FALSE_VALUE == 30
TRUE_VALUE == 31
isinstance_bool(v) == v \in {FALSE_VALUE, TRUE_VALUE}
isinstance_int(v) == v \in 1..9 \/ isinstance_bool(v)      \* bool is a subclass of int
isinstance_float(v) == v \in 21..29
isinstance_str(v) == v \in 11..19
len(v) == v - 10

TABLE_NAME == "users"
column_order == <<"id", "email", "age">>
ColumnNames == {"id", "email", "age"}
UNKNOWN_COLUMN == "zzz"
ROW_ID == "_row_id"

PRIMARY_KEY == "PRIMARY KEY"
UNIQUE == "UNIQUE"
NOT_NULL == "NOT NULL"

\* CREATE TABLE users(id INTEGER PRIMARY KEY, email VARCHAR UNIQUE, age INTEGER NOT NULL)
UsersColumns ==
    [c \in ColumnNames |->
        CASE c = "id"    -> [name |-> c, data_type |-> "INTEGER", max_length |-> NULL, constraints |-> {PRIMARY_KEY}]
          [] c = "email" -> [name |-> c, data_type |-> "VARCHAR", max_length |-> NULL, constraints |-> {UNIQUE}]
          [] c = "age"   -> [name |-> c, data_type |-> "INTEGER", max_length |-> NULL, constraints |-> {NOT_NULL}]]

\* the list of Column objects of a schema over ColumnNames, in column order
ColumnList(cols) == [i \in 1..Len(column_order) |-> cols[column_order[i]]]

-----------------------------------------------------------------------------
(* storage/types.py : Column *)

is_primary_key(column) == PRIMARY_KEY \in column.constraints

is_unique(column) == UNIQUE \in column.constraints \/ is_primary_key(column)

is_not_null(column) == NOT_NULL \in column.constraints \/ is_primary_key(column)

\* (mutant) validate_value_for_type without the tests that exclude booleans
validate_value_for_type_bool_is_int(value, data_type, max_length) ==
    IF value = NULL THEN "None"
    ELSE CASE data_type = "INTEGER" ->
                 IF ~isinstance_int(value) THEN "TypeValidationError" ELSE "None"
           [] data_type = "FLOAT" ->
                 IF ~(isinstance_int(value) \/ isinstance_float(value))
                 THEN "TypeValidationError" ELSE "None"
           [] data_type = "BOOLEAN" ->
                 IF ~isinstance_bool(value) THEN "TypeValidationError" ELSE "None"
           [] data_type = "VARCHAR" ->
                 IF ~isinstance_str(value) THEN "TypeValidationError"
                 ELSE IF max_length /= 0 /\ len(value) > max_length THEN "TypeValidationError"
                 ELSE "None"
           [] data_type = "TEXT" ->
                 IF ~isinstance_str(value) THEN "TypeValidationError" ELSE "None"
           [] OTHER -> "ValueError"

\* utils/validators.py : "None" when the value is accepted; a max_length of
\* None or 0 is falsy and bounds nothing
validate_value_for_type(value, data_type, max_length) ==
    IF value = NULL THEN "None"
    ELSE CASE data_type = "INTEGER" ->
                 IF ~isinstance_int(value) \/ isinstance_bool(value)
                 THEN "TypeValidationError" ELSE "None"
           [] data_type = "FLOAT" ->
                 IF ~(isinstance_int(value) \/ isinstance_float(value)) \/ isinstance_bool(value)
                 THEN "TypeValidationError" ELSE "None"
           [] data_type = "BOOLEAN" ->
                 IF ~isinstance_bool(value) THEN "TypeValidationError" ELSE "None"
           [] data_type = "VARCHAR" ->
                 IF ~isinstance_str(value) THEN "TypeValidationError"
                 ELSE IF max_length /= 0 /\ len(value) > max_length THEN "TypeValidationError"
                 ELSE "None"
           [] data_type = "TEXT" ->
                 IF ~isinstance_str(value) THEN "TypeValidationError" ELSE "None"
           [] OTHER -> "ValueError"

\* (mutant) Column.validate without the NOT NULL test
validate_any_null(column, value) ==
    validate_value_for_type(value, column.data_type, column.max_length)

\* Column.validate: the exception it raises, "None" when it returns
validate(column, value) ==
    IF value = NULL
    THEN (IF is_not_null(column) THEN "ConstraintViolationError" ELSE "None")
    ELSE validate_value_for_type(value, column.data_type, column.max_length)

-----------------------------------------------------------------------------
(* storage/index.py : HashIndex.  _index is a dict key -> list of row ids; *)
(* a dict is a function whose DOMAIN is the set of its keys.               *)

EmptyDict == <<>>

\* list.remove(x): drops the first occurrence
RECURSIVE list_remove(_, _)
list_remove(lst, x) ==
    IF lst = <<>> THEN <<>>
    ELSE IF Head(lst) = x THEN Tail(lst)
    ELSE <<Head(lst)>> \o list_remove(Tail(lst), x)

list_contains(lst, x) == \E i \in 1..Len(lst) : lst[i] = x

dict_del(d, k) == [x \in (DOMAIN d) \ {k} |-> d[x]]

\* (mutant) HashIndex.insert without the test for a None key
HashIndex_insert_any_key(index, key, row_id) ==
    IF key \in DOMAIN index
    THEN [index EXCEPT ![key] = Append(@, row_id)]
    ELSE (key :> <<row_id>>) @@ index

HashIndex_insert(index, key, row_id) ==
    IF key /= NULL
    THEN (IF key \in DOMAIN index
          THEN [index EXCEPT ![key] = Append(@, row_id)]
          ELSE (key :> <<row_id>>) @@ index)
    ELSE index

HashIndex_search(index, key) ==
    IF key = NULL THEN <<>>
    ELSE IF key \in DOMAIN index THEN index[key] ELSE <<>>

\* (mutant) HashIndex.delete that never removes the last id of a key
HashIndex_delete_keeps_last(index, key, row_id) ==
    IF key /= NULL /\ key \in DOMAIN index /\ index[key] = <<row_id>>
    THEN index
    ELSE IF key /= NULL /\ key \in DOMAIN index /\ list_contains(index[key], row_id)
    THEN [index EXCEPT ![key] = list_remove(index[key], row_id)]
    ELSE index

HashIndex_delete(index, key, row_id) ==
    IF key /= NULL /\ key \in DOMAIN index
    THEN (IF list_contains(index[key], row_id)
          THEN (LET l == list_remove(index[key], row_id)
                IN  IF l = <<>> THEN dict_del(index, key)
                    ELSE [index EXCEPT ![key] = l])
          ELSE index)
    ELSE index

HashIndex_get_all_keys(index) == DOMAIN index

HashIndex_clear(index) == EmptyDict

\* A list object as a caller holds it: `at` is the key of the index entry whose
\* list this very object is, NULL for a list that belongs to no entry.
ListObject(at, items) == [at |-> at, items |-> items]

\* self._index.get(key, []): the entry's own list, or a new empty list
dict_get(index, key) ==
    IF key \in DOMAIN index THEN ListObject(key, index[key]) ELSE ListObject(NULL, <<>>)

\* list.copy(): a new list object with the same items
list_copy(l) == ListObject(NULL, l.items)

\* (mutant) HashIndex.search that returns the entry's list itself
search_without_copy(index, key) ==
    IF key = NULL THEN ListObject(NULL, <<>>) ELSE dict_get(index, key)

\* HashIndex.search, as the list object it returns
search(index, key) ==
    IF key = NULL THEN ListObject(NULL, <<>>) ELSE list_copy(dict_get(index, key))

\* a caller's change of a list object it holds: the object's items become
\* new_items, and with them the index entry's, when it is that entry's list
list_set(index, l, new_items) ==
    [index |-> IF l.at = NULL THEN index ELSE [index EXCEPT ![l.at] = new_items],
     l |-> ListObject(l.at, new_items)]


-----------------------------------------------------------------------------
(* storage/table.py : Table.  A table value t is the record of the fields  *)
(* of a Table object; every method is an operator from the table (and the  *)
(* arguments) to the table it leaves behind, the exception it raises and   *)
(* the value it returns.                                                   *)

RowKeys == ColumnNames \cup {ROW_ID}

Outcome(t, exc, ret) == [t |-> t, raised |-> exc, returned |-> ret]

\* Table.primary_key: the name of the primary-key column, "None" without one
primary_key(t) ==
    IF \E c \in DOMAIN t.columns : is_primary_key(t.columns[c])
    THEN CHOOSE c \in DOMAIN t.columns : is_primary_key(t.columns[c])
    ELSE "None"

is_live(t, row) == row[ROW_ID] \notin t._deleted_row_ids

has_index(t, column_name) == column_name \in DOMAIN t._indexes

\* get_index: callers test has_index first where the code tests for None
get_index(t, column_name) == t._indexes[column_name]

\* _find_by_index: [found |-> FALSE] stands for None
_find_by_index(t, column_name, value) ==
    IF column_name \notin DOMAIN t._indexes
    THEN [found |-> FALSE, ids |-> <<>>]
    ELSE [found |-> TRUE, ids |-> HashIndex_search(t._indexes[column_name], value)]

\* truth value of the list-or-None that _find_by_index returns
truthy(existing) == existing.found /\ existing.ids /= <<>>

\* (mutant) _strip_internal_id that returns the stored row
_strip_internal_id_keeps_it(row) == row

\* _strip_internal_id: the row without its '_row_id' entry
_strip_internal_id(row) == [k \in (DOMAIN row) \ {ROW_ID} |-> row[k]]

\* positions, in list order, of the live rows
RECURSIVE live_positions(_, _)
live_positions(t, i) ==
    IF i > Len(t._rows) THEN <<>>
    ELSE (IF is_live(t, t._rows[i]) THEN <<i>> ELSE <<>>) \o live_positions(t, i + 1)

\* (mutant) scan() that yields the newest row first
scan_newest_first(t) ==
    LET pos == live_positions(t, 1)
    IN  [j \in 1..Len(pos) |-> _strip_internal_id(t._rows[pos[Len(pos) + 1 - j]])]

\* scan(): the live rows in list order, internal id stripped
scan(t) ==
    LET pos == live_positions(t, 1)
    IN  [j \in 1..Len(pos) |-> _strip_internal_id(t._rows[pos[j]])]

\* (mutant) the row lookup without the test for deleted rows
find_row_also_deleted(t, row_id) ==
    LET hits == {i \in 1..Len(t._rows) : t._rows[i][ROW_ID] = row_id}
    IN  IF hits = {} THEN 0 ELSE CHOOSE i \in hits : \A j \in hits : i <= j

\* position of the first row with this id that is not deleted, 0 if none
find_row(t, row_id) ==
    LET hits == {i \in 1..Len(t._rows) :
                    t._rows[i][ROW_ID] = row_id /\ row_id \notin t._deleted_row_ids}
    IN  IF hits = {} THEN 0 ELSE CHOOSE i \in hits : \A j \in hits : i <= j

\* get_row: [found |-> FALSE] stands for None
get_row(t, row_id) ==
    LET i == find_row(t, row_id)
    IN  IF i = 0 THEN [found |-> FALSE, row |-> <<>>]
        ELSE [found |-> TRUE, row |-> _strip_internal_id(t._rows[i])]

\* (mutant) row_count that counts the deleted rows too
row_count_of_all_rows(t) == Len(t._rows)

\* row_count: len(self._rows) - len(self._deleted_row_ids)
row_count(t) == Len(t._rows) - Cardinality(t._deleted_row_ids)

\* (mutant) the loop of create_index without the test for deleted rows
RECURSIVE populate_index_all(_, _, _, _)
populate_index_all(t, column_name, index, i) ==
    IF i > Len(t._rows) THEN index
    ELSE populate_index_all(t, column_name,
             HashIndex_insert(index, t._rows[i][column_name], t._rows[i][ROW_ID]),
             i + 1)

\* the loop of create_index over self._rows, from position i on
RECURSIVE populate_index(_, _, _, _)
populate_index(t, column_name, index, i) ==
    IF i > Len(t._rows) THEN index
    ELSE LET row == t._rows[i]
         IN  populate_index(t, column_name,
                 IF ROW_ID \in DOMAIN row /\ row[ROW_ID] \notin t._deleted_row_ids
                 THEN HashIndex_insert(index, row[column_name], row[ROW_ID])
                 ELSE index,
                 i + 1)

\* (mutant) create_index without the test for an existing index: the index is
\* built again from the rows
create_index_builds_again(t, column_name) ==
    IF column_name \notin DOMAIN t.columns
    THEN Outcome(t, "ColumnNotFoundError", -1)
    ELSE Outcome([t EXCEPT !._indexes =
                      (column_name :> populate_index(t, column_name, EmptyDict, 1)) @@ @],
                 "None", -1)

create_index(t, column_name) ==
    IF column_name \notin DOMAIN t.columns
    THEN Outcome(t, "ColumnNotFoundError", -1)
    ELSE IF column_name \in DOMAIN t._indexes
    THEN Outcome(t, "None", -1)
    ELSE Outcome([t EXCEPT !._indexes =
                      (column_name :> populate_index(t, column_name, EmptyDict, 1)) @@ @],
                 "None", -1)

\* (mutant) drop_index that drops the index of any column
drop_index_of_any_column(t, column_name) ==
    Outcome([t EXCEPT !._indexes = dict_del(@, column_name)], "None", -1)

\* drop_index: refused for a PRIMARY KEY / UNIQUE column, else pop(column_name, None)
drop_index(t, column_name) ==
    IF column_name \in DOMAIN t.columns
       /\ (is_primary_key(t.columns[column_name]) \/ is_unique(t.columns[column_name]))
    THEN Outcome(t, "ValueError", -1)
    ELSE Outcome([t EXCEPT !._indexes = dict_del(@, column_name)], "None", -1)

\* Table.__init__: empty storage, an index for every PRIMARY KEY / UNIQUE column
RECURSIVE init_indexes(_, _)
init_indexes(t, i) ==
    IF i > Len(t.column_order) THEN t
    ELSE LET col == t.columns[t.column_order[i]]
         IN  init_indexes(IF is_primary_key(col) \/ is_unique(col)
                          THEN create_index(t, col.name).t ELSE t,
                          i + 1)

\* columns is the list of Column objects the constructor is given
Table_init(name, column_list) ==
    init_indexes([name |-> name,
                  columns |-> [c \in {column_list[i].name : i \in 1..Len(column_list)} |->
                                  LET i == CHOOSE i \in 1..Len(column_list) :
                                               column_list[i].name = c
                                  IN  column_list[i]],
                  column_order |-> [i \in 1..Len(column_list) |-> column_list[i].name],
                  _rows |-> <<>>, _next_row_id |-> 0,
                  _deleted_row_ids |-> {}, _indexes |-> EmptyDict], 1)

\* first position of seq (1-based) that satisfies the test, 0 if none
first_such(S) == IF S = {} THEN 0 ELSE CHOOSE i \in S : \A j \in S : i <= j

\* (mutant) the primary-key index is not told of the new row
index_new_row_but_first(t, row) ==
    [c \in DOMAIN t._indexes |->
        IF is_primary_key(t.columns[c]) THEN t._indexes[c]
        ELSE HashIndex_insert(t._indexes[c], row[c], row[ROW_ID])]

\* every index gets the new row's value (insert_row, "Update all indexes")
index_new_row(t, row) ==
    [c \in DOMAIN t._indexes |-> HashIndex_insert(t._indexes[c], row[c], row[ROW_ID])]

\* (mutant) insert_row that takes the row identifier before the uniqueness checks
insert_row_takes_id_first(t, row_data) ==
    LET complete_row == [c \in DOMAIN t.columns |->
                            IF c \in DOMAIN row_data THEN row_data[c] ELSE NULL]
        bad == first_such({i \in 1..Len(t.column_order) :
                   validate(t.columns[t.column_order[i]],
                            complete_row[t.column_order[i]]) /= "None"})
        row_id == t._next_row_id
        stored == [k \in DOMAIN t.columns \cup {ROW_ID} |->
                      IF k = ROW_ID THEN row_id ELSE complete_row[k]]
        taken == [t EXCEPT !._next_row_id = row_id + 1]
    IN  IF \E k \in DOMAIN row_data : k \notin DOMAIN t.columns
        THEN Outcome(t, "ColumnNotFoundError", -1)
        ELSE IF bad /= 0
        THEN Outcome(t, validate(t.columns[t.column_order[bad]],
                                 complete_row[t.column_order[bad]]), -1)
        ELSE IF \E c \in DOMAIN t.columns :
                   /\ is_unique(t.columns[c])
                   /\ complete_row[c] /= NULL
                   /\ truthy(_find_by_index(t, c, complete_row[c]))
        THEN Outcome(taken, "DuplicateKeyError", -1)
        ELSE Outcome([taken EXCEPT !._rows = Append(@, stored),
                                   !._indexes = index_new_row(t, stored)],
                     "None", row_id)

\* (mutant) insert_row that gives the new row the identifier of a deleted row
\* when there is one
insert_row_reuses_deleted_id(t, row_data) ==
    LET complete_row == [c \in DOMAIN t.columns |->
                            IF c \in DOMAIN row_data THEN row_data[c] ELSE NULL]
        bad == first_such({i \in 1..Len(t.column_order) :
                   validate(t.columns[t.column_order[i]],
                            complete_row[t.column_order[i]]) /= "None"})
        row_id == IF t._deleted_row_ids /= {}
                  THEN CHOOSE d \in t._deleted_row_ids : TRUE
                  ELSE t._next_row_id
        stored == [k \in DOMAIN t.columns \cup {ROW_ID} |->
                      IF k = ROW_ID THEN row_id ELSE complete_row[k]]
    IN  IF \E k \in DOMAIN row_data : k \notin DOMAIN t.columns
        THEN Outcome(t, "ColumnNotFoundError", -1)
        ELSE IF bad /= 0
        THEN Outcome(t, validate(t.columns[t.column_order[bad]],
                                 complete_row[t.column_order[bad]]), -1)
        ELSE IF \E c \in DOMAIN t.columns :
                   /\ is_unique(t.columns[c])
                   /\ complete_row[c] /= NULL
                   /\ truthy(_find_by_index(t, c, complete_row[c]))
        THEN Outcome(t, "DuplicateKeyError", -1)
        ELSE Outcome([t EXCEPT !._next_row_id = @ + 1,
                               !._rows = Append(@, stored),
                               !._indexes = index_new_row(t, stored)],
                     "None", row_id)

insert_row(t, row_data) ==
    LET complete_row == [c \in DOMAIN t.columns |->
                            IF c \in DOMAIN row_data THEN row_data[c] ELSE NULL]
        bad == first_such({i \in 1..Len(t.column_order) :
                   validate(t.columns[t.column_order[i]],
                            complete_row[t.column_order[i]]) /= "None"})
        pk == primary_key(t)
        dup_unique == \E c \in DOMAIN t.columns :
                         /\ is_unique(t.columns[c]) /\ ~is_primary_key(t.columns[c])
                         /\ complete_row[c] /= NULL
                         /\ truthy(_find_by_index(t, c, complete_row[c]))
        row_id == t._next_row_id
        stored == [k \in DOMAIN t.columns \cup {ROW_ID} |->
                      IF k = ROW_ID THEN row_id ELSE complete_row[k]]
    IN  IF \E k \in DOMAIN row_data : k \notin DOMAIN t.columns
        THEN Outcome(t, "ColumnNotFoundError", -1)
        ELSE IF bad /= 0
        THEN Outcome(t, validate(t.columns[t.column_order[bad]],
                                 complete_row[t.column_order[bad]]), -1)
        ELSE IF pk /= "None" /\ complete_row[pk] /= NULL
                /\ truthy(_find_by_index(t, pk, complete_row[pk]))
        THEN Outcome(t, "DuplicateKeyError", -1)
        ELSE IF dup_unique
        THEN Outcome(t, "DuplicateKeyError", -1)
        ELSE Outcome([t EXCEPT !._next_row_id = row_id + 1,
                               !._rows = Append(@, stored),
                               !._indexes = index_new_row(t, stored)],
                     "None", row_id)

\* (mutant) the validation of an assignment without the UNIQUE check
check_assignment_without_unique(t, row_id, col_name, new_value) ==
    IF col_name \notin DOMAIN t.columns THEN "ColumnNotFoundError"
    ELSE LET column == t.columns[col_name]
         IN  IF is_primary_key(column) THEN "ConstraintViolationError"
             ELSE validate(column, new_value)

\* (mutant) the validation of an assignment that lets the primary key be
\* assigned its current value
check_assignment_same_key(t, row_id, col_name, new_value) ==
    IF col_name \notin DOMAIN t.columns THEN "ColumnNotFoundError"
    ELSE LET column == t.columns[col_name]
             existing == _find_by_index(t, col_name, new_value)
         IN  IF is_primary_key(column)
                /\ t._rows[find_row(t, row_id)][col_name] /= new_value
             THEN "ConstraintViolationError"
             ELSE IF validate(column, new_value) /= "None" THEN validate(column, new_value)
             ELSE IF is_unique(column) /\ new_value /= NULL
                     /\ truthy(existing) /\ existing.ids[1] /= row_id
             THEN "DuplicateKeyError"
             ELSE "None"

\* what the validation loop of update_row raises for one assignment
check_assignment(t, row_id, col_name, new_value) ==
    IF col_name \notin DOMAIN t.columns THEN "ColumnNotFoundError"
    ELSE LET column == t.columns[col_name]
             existing == _find_by_index(t, col_name, new_value)
         IN  IF is_primary_key(column) THEN "ConstraintViolationError"
             ELSE IF validate(column, new_value) /= "None" THEN validate(column, new_value)
             ELSE IF is_unique(column) /\ new_value /= NULL
                     /\ truthy(existing) /\ existing.ids[1] /= row_id
             THEN "DuplicateKeyError"
             ELSE "None"

\* (mutant) the index calls of one assignment, insert before delete
update_index_insert_first(index, old_value, new_value, row_id) ==
    <<HashIndex_insert(index, new_value, row_id),
      HashIndex_delete(HashIndex_insert(index, new_value, row_id), old_value, row_id)>>

\* the two index calls that update_row makes for one assignment to an indexed
\* column: the index after delete(old_value, row_id), and after the
\* insert(new_value, row_id) that follows it
update_index(index, old_value, new_value, row_id) ==
    <<HashIndex_delete(index, old_value, row_id),
      HashIndex_insert(HashIndex_delete(index, old_value, row_id), new_value, row_id)>>

\* the "Apply updates" loop of update_row from assignment i on: new_row and
\* the indexes are changed assignment by assignment; old values come from old_row
RECURSIVE apply_updates(_, _, _, _, _, _)
apply_updates(updates, i, row_id, old_row, new_row, indexes) ==
    IF i > Len(updates) THEN [new_row |-> new_row, indexes |-> indexes]
    ELSE LET col_name == updates[i][1]
             new_value == updates[i][2]
             old_value == old_row[col_name]
         IN  apply_updates(updates, i + 1, row_id, old_row,
                 [new_row EXCEPT ![col_name] = new_value],
                 IF col_name \in DOMAIN indexes
                 THEN [indexes EXCEPT ![col_name] =
                          update_index(@, old_value, new_value, row_id)[2]]
                 ELSE indexes)

\* the same loop, as the list of the index calls it makes: for each call the
\* column of the index and the indexes as the call leaves them
RECURSIVE apply_updates_calls(_, _, _, _, _)
apply_updates_calls(updates, i, row_id, old_row, indexes) ==
    IF i > Len(updates) THEN <<>>
    ELSE LET col_name == updates[i][1]
             new_value == updates[i][2]
             old_value == old_row[col_name]
             after == update_index(indexes[col_name], old_value, new_value, row_id)
         IN  IF col_name \in DOMAIN indexes
             THEN <<[col_name |-> col_name, call |-> "delete",
                     indexes |-> [indexes EXCEPT ![col_name] = after[1]]],
                    [col_name |-> col_name, call |-> "insert",
                     indexes |-> [indexes EXCEPT ![col_name] = after[2]]]>>
                  \o apply_updates_calls(updates, i + 1, row_id, old_row,
                                         [indexes EXCEPT ![col_name] = after[2]])
             ELSE apply_updates_calls(updates, i + 1, row_id, old_row, indexes)

\* updates is the dict of assignments in its iteration order: <<col, value>> pairs
update_row(t, row_id, updates) ==
    LET row_index == find_row(t, row_id)
        bad == first_such({i \in 1..Len(updates) :
                   check_assignment(t, row_id, updates[i][1], updates[i][2]) /= "None"})
    IN  IF row_index = 0 THEN Outcome(t, "None", 0)
        ELSE IF bad /= 0
        THEN Outcome(t, check_assignment(t, row_id, updates[bad][1], updates[bad][2]), -1)
        ELSE LET old_row == t._rows[row_index]
                 r == apply_updates(updates, 1, row_id, old_row, old_row, t._indexes)
             IN  Outcome([t EXCEPT !._rows = [@ EXCEPT ![row_index] = r.new_row],
                                   !._indexes = r.indexes],
                         "None", 1)

\* (mutant) delete_row that marks the row deleted and leaves the indexes alone
delete_row_keeps_index_entries(t, row_id) ==
    LET i == find_row(t, row_id)
    IN  IF i = 0 THEN Outcome(t, "None", 0)
        ELSE Outcome([t EXCEPT !._deleted_row_ids = @ \cup {row_id}], "None", 1)

delete_row(t, row_id) ==
    LET i == find_row(t, row_id)
    IN  IF i = 0 THEN Outcome(t, "None", 0)
        ELSE Outcome([t EXCEPT !._deleted_row_ids = @ \cup {row_id},
                               !._indexes = [c \in DOMAIN @ |->
                                   HashIndex_delete(@[c], t._rows[i][c], row_id)]],
                     "None", 1)

-----------------------------------------------------------------------------
(* parser/ast.py : the expression and condition nodes *)

ColumnRef(column_name, table_name) ==
    [column_name |-> column_name, table_name |-> table_name, kind |-> "ColumnRef"]

Literal(value) == [value |-> value, kind |-> "Literal"]

Comparison(left, o, right) == [op |-> o, kind |-> "Comparison", left |-> left, right |-> right]

LogicalCondition(left, o, right) ==
    [op |-> o, kind |-> "LogicalCondition", left |-> left, right |-> right]

\* an absent WHERE clause (where is None)
NoCondition == [kind |-> "None"]

ComparisonOp == {"=", "!=", "<", ">", "<=", ">="}

-----------------------------------------------------------------------------
(* utils/row_utils.py and executor/evaluator.py *)

\* get_column_value: the qualified key first when a table name is given, then
\* the bare key; KeyError when neither is a key of the row
\* (mutant) get_column_value that tries the bare name first
get_column_value_bare_first(row, column_name, table_name) ==
    LET qualified == table_name \o "." \o column_name
    IN  IF column_name \in DOMAIN row
        THEN [raised |-> "None", value |-> row[column_name]]
        ELSE IF table_name /= "None" /\ qualified \in DOMAIN row
        THEN [raised |-> "None", value |-> row[qualified]]
        ELSE [raised |-> "KeyError", value |-> NULL]

get_column_value(row, column_name, table_name) ==
    LET qualified == table_name \o "." \o column_name
    IN  IF table_name /= "None" /\ qualified \in DOMAIN row
        THEN [raised |-> "None", value |-> row[qualified]]
        ELSE IF column_name \in DOMAIN row
        THEN [raised |-> "None", value |-> row[column_name]]
        ELSE [raised |-> "KeyError", value |-> NULL]

\* _get_value: KeyError becomes ColumnNotFoundError
_get_value(expr, row) ==
    IF expr.kind = "ColumnRef"
    THEN LET r == get_column_value(row, expr.column_name, expr.table_name)
         IN  IF r.raised = "KeyError"
             THEN [raised |-> "ColumnNotFoundError", value |-> NULL]
             ELSE r
    ELSE [raised |-> "None", value |-> expr.value]

\* Python's ordering of two non-None values: int with int and str with str;
\* an int against a str is a TypeError
same_kind(a, b) == isinstance_int(a) <=> isinstance_int(b)

\* (mutant) _evaluate_comparison that compares None with Python's == and !=
_evaluate_comparison_plain_equality(comp, row) ==
    LET l == _get_value(comp.left, row)
        r == _get_value(comp.right, row)
        left_value == l.value
        right_value == r.value
    IN  IF l.raised /= "None" THEN [raised |-> l.raised, value |-> FALSE]
        ELSE IF r.raised /= "None" THEN [raised |-> r.raised, value |-> FALSE]
        ELSE IF comp.op = "=" THEN [raised |-> "None", value |-> left_value = right_value]
        ELSE IF comp.op = "!=" THEN [raised |-> "None", value |-> left_value /= right_value]
        ELSE IF left_value = NULL \/ right_value = NULL
        THEN [raised |-> "None", value |-> FALSE]
        ELSE IF ~same_kind(left_value, right_value)
        THEN [raised |-> "TypeError", value |-> FALSE]
        ELSE [raised |-> "None",
              value |-> CASE comp.op = "<"  -> left_value < right_value
                          [] comp.op = ">"  -> left_value > right_value
                          [] comp.op = "<=" -> left_value <= right_value
                          [] comp.op = ">=" -> left_value >= right_value]

\* _evaluate_comparison: a None operand makes every operator false, except
\* != which is Python's != of the two values
_evaluate_comparison(comp, row) ==
    LET l == _get_value(comp.left, row)
        r == _get_value(comp.right, row)
        left_value == l.value
        right_value == r.value
    IN  IF l.raised /= "None" THEN [raised |-> l.raised, value |-> FALSE]
        ELSE IF r.raised /= "None" THEN [raised |-> r.raised, value |-> FALSE]
        ELSE IF left_value = NULL \/ right_value = NULL
        THEN [raised |-> "None",
              value |-> IF comp.op = "!=" THEN left_value /= right_value ELSE FALSE]
        ELSE IF comp.op = "=" THEN [raised |-> "None", value |-> left_value = right_value]
        ELSE IF comp.op = "!=" THEN [raised |-> "None", value |-> left_value /= right_value]
        ELSE IF ~same_kind(left_value, right_value)
        THEN [raised |-> "TypeError", value |-> FALSE]
        ELSE [raised |-> "None",
              value |-> CASE comp.op = "<"  -> left_value < right_value
                          [] comp.op = ">"  -> left_value > right_value
                          [] comp.op = "<=" -> left_value <= right_value
                          [] comp.op = ">=" -> left_value >= right_value]

\* (mutant) evaluate that evaluates both operands of AND / OR before combining
RECURSIVE evaluate_both_operands(_, _)
evaluate_both_operands(condition, row) ==
    IF condition.kind = "Comparison" THEN _evaluate_comparison(condition, row)
    ELSE LET left_result == evaluate_both_operands(condition.left, row)
             right_result == evaluate_both_operands(condition.right, row)
         IN  IF left_result.raised /= "None" THEN left_result
             ELSE IF right_result.raised /= "None" THEN right_result
             ELSE IF condition.op = "AND"
             THEN [raised |-> "None", value |-> left_result.value /\ right_result.value]
             ELSE [raised |-> "None", value |-> left_result.value \/ right_result.value]

\* evaluate / _evaluate_logical: the right operand is evaluated only when the
\* left one does not decide the result
RECURSIVE evaluate(_, _)
evaluate(condition, row) ==
    IF condition.kind = "Comparison" THEN _evaluate_comparison(condition, row)
    ELSE LET left_result == evaluate(condition.left, row)
         IN  IF left_result.raised /= "None" THEN left_result
             ELSE IF condition.op = "AND"
             THEN (IF ~left_result.value THEN [raised |-> "None", value |-> FALSE]
                   ELSE evaluate(condition.right, row))
             ELSE (IF left_result.value THEN [raised |-> "None", value |-> TRUE]
                   ELSE evaluate(condition.right, row))

-----------------------------------------------------------------------------
(* executor/planner.py : QueryPlanner *)

\* (mutant) _find_index_opportunity that also looks into the left operand of
\* an AND / OR
RECURSIVE _find_index_opportunity_nested(_, _)
_find_index_opportunity_nested(t, condition) ==
    IF condition.kind = "LogicalCondition"
    THEN _find_index_opportunity_nested(t, condition.left)
    ELSE IF condition.kind = "Comparison" /\ condition.op = "="
       /\ condition.left.kind = "ColumnRef" /\ condition.right.kind = "Literal"
       /\ has_index(t, condition.left.column_name)
    THEN [column |-> condition.left.column_name, value |-> condition.right.value]
    ELSE IF condition.kind = "Comparison" /\ condition.op = "="
            /\ condition.left.kind = "Literal" /\ condition.right.kind = "ColumnRef"
            /\ has_index(t, condition.right.column_name)
    THEN [column |-> condition.right.column_name, value |-> condition.left.value]
    ELSE [column |-> "None", value |-> NULL]

\* _find_index_opportunity: (column_name, value), column "None" for (None, None)
_find_index_opportunity(t, condition) ==
    IF condition.kind = "Comparison" /\ condition.op = "="
       /\ condition.left.kind = "ColumnRef" /\ condition.right.kind = "Literal"
       /\ has_index(t, condition.left.column_name)
    THEN [column |-> condition.left.column_name, value |-> condition.right.value]
    ELSE IF condition.kind = "Comparison" /\ condition.op = "="
            /\ condition.left.kind = "Literal" /\ condition.right.kind = "ColumnRef"
            /\ has_index(t, condition.right.column_name)
    THEN [column |-> condition.right.column_name, value |-> condition.left.value]
    ELSE [column |-> "None", value |-> NULL]

\* (mutant) can_use_index that does not look at the literal's value
can_use_index_any_literal(t, condition) ==
    IF condition.kind = "None" THEN FALSE
    ELSE _find_index_opportunity(t, condition).column /= "None"

can_use_index(t, condition) ==
    IF condition.kind = "None" THEN FALSE
    ELSE LET o == _find_index_opportunity(t, condition)
         IN  o.column /= "None" /\ o.value /= NULL

\* the rows of the ids an index search returned, in that order (get_row each)
RECURSIVE rows_of_ids(_, _)
rows_of_ids(t, row_ids) ==
    IF row_ids = <<>> THEN <<>>
    ELSE LET r == get_row(t, Head(row_ids))
         IN  (IF r.found THEN <<r.row>> ELSE <<>>) \o rows_of_ids(t, Tail(row_ids))

\* _get_candidate_rows: the candidates and where they came from
_get_candidate_rows(t, condition) ==
    LET o == _find_index_opportunity(t, condition)
    IN  IF o.column /= "None" /\ o.value /= NULL /\ has_index(t, o.column)
        THEN [source |-> "index",
              rows |-> rows_of_ids(t, HashIndex_search(get_index(t, o.column), o.value))]
        ELSE [source |-> "scan", rows |-> scan(t)]

\* the filter loop of get_matching_rows: stops at the first row whose
\* evaluation raises
RECURSIVE filter_rows(_, _, _)
filter_rows(condition, rows_to_check, matching_rows) ==
    IF rows_to_check = <<>> THEN [raised |-> "None", rows |-> matching_rows]
    ELSE LET e == evaluate(condition, Head(rows_to_check))
         IN  IF e.raised /= "None" THEN [raised |-> e.raised, rows |-> <<>>]
             ELSE filter_rows(condition, Tail(rows_to_check),
                      IF e.value THEN Append(matching_rows, Head(rows_to_check))
                      ELSE matching_rows)

get_matching_rows(t, where) ==
    IF where.kind = "None" THEN [raised |-> "None", rows |-> scan(t)]
    ELSE filter_rows(where, _get_candidate_rows(t, where).rows, <<>>)

-----------------------------------------------------------------------------
(* executor/executor.py : QueryExecutor, the statements on one table *)

\* _execute_insert: the row goes to insert_row; the statement returns 1
_execute_insert(t, row_data) ==
    LET o == insert_row(t, row_data)
    IN  IF o.raised /= "None" THEN o ELSE Outcome(o.t, "None", 1)

\* project_columns: the listed columns that the row has
project_columns(row, cols) ==
    [c \in {cols[i] : i \in 1..Len(cols)} \cap DOMAIN row |-> row[c]]

\* _execute_select without a join; cols is "*" or a list of column names
_execute_select(t, cols, where) ==
    LET m == get_matching_rows(t, where)
    IN  IF m.raised /= "None" \/ cols = <<"*">> THEN m
        ELSE [raised |-> "None",
              rows |-> [i \in 1..Len(m.rows) |-> project_columns(m.rows[i], cols)]]

\* (mutant) the re-location loop without the test for deleted rows
relocate_also_deleted(t, match_row) ==
    first_such({i \in 1..Len(t._rows) :
                   \A k \in DOMAIN match_row : t._rows[i][k] = match_row[k]})

\* the re-location loop of UPDATE and DELETE: position of the first live row
\* that equals match_row on every key of match_row, 0 if there is none
relocate(t, match_row) ==
    first_such({i \in 1..Len(t._rows) :
                   /\ t._rows[i][ROW_ID] \notin t._deleted_row_ids
                   /\ \A k \in DOMAIN match_row : t._rows[i][k] = match_row[k]})

\* the loop of _execute_update over matching_rows; an exception of update_row
\* ends the statement and leaves the table as the earlier iterations made it
RECURSIVE update_matches(_, _, _, _)
update_matches(t, matching_rows, assignments, updated_count) ==
    IF matching_rows = <<>> THEN Outcome(t, "None", updated_count)
    ELSE LET i == relocate(t, Head(matching_rows))
         IN  IF i = 0
             THEN update_matches(t, Tail(matching_rows), assignments, updated_count)
             ELSE LET o == update_row(t, t._rows[i][ROW_ID], assignments)
                  IN  IF o.raised /= "None" THEN Outcome(o.t, o.raised, -1)
                      ELSE update_matches(o.t, Tail(matching_rows), assignments,
                                          updated_count + 1)

_execute_update(t, assignments, where) ==
    LET m == get_matching_rows(t, where)
    IN  IF m.raised /= "None" THEN Outcome(t, m.raised, -1)
        ELSE update_matches(t, m.rows, assignments, 0)

\* (mutant) the loop of _execute_delete that handles equal matching rows once
RECURSIVE delete_matches_distinct(_, _, _)
delete_matches_distinct(t, matching_rows, deleted_count) ==
    IF matching_rows = <<>> THEN Outcome(t, "None", deleted_count)
    ELSE LET i == relocate(t, Head(matching_rows))
         IN  IF i = 0 \/ \E j \in 2..Len(matching_rows) : matching_rows[j] = Head(matching_rows)
             THEN delete_matches_distinct(t, Tail(matching_rows), deleted_count)
             ELSE delete_matches_distinct(delete_row(t, t._rows[i][ROW_ID]).t,
                                          Tail(matching_rows), deleted_count + 1)

RECURSIVE delete_matches(_, _, _)
delete_matches(t, matching_rows, deleted_count) ==
    IF matching_rows = <<>> THEN Outcome(t, "None", deleted_count)
    ELSE LET i == relocate(t, Head(matching_rows))
         IN  IF i = 0 THEN delete_matches(t, Tail(matching_rows), deleted_count)
             ELSE delete_matches(delete_row(t, t._rows[i][ROW_ID]).t,
                                 Tail(matching_rows), deleted_count + 1)

_execute_delete(t, where) ==
    LET m == get_matching_rows(t, where)
    IN  IF m.raised /= "None" THEN Outcome(t, m.raised, -1)
        ELSE delete_matches(t, m.rows, 0)

-----------------------------------------------------------------------------
(* executor/executor.py : SELECT with INNER JOIN, and the second table *)

POSTS_NAME == "posts"

TableNames == {TABLE_NAME, POSTS_NAME}

\* CREATE TABLE posts(id INTEGER PRIMARY KEY, user_id INTEGER)
PostsColumnList ==
    <<[name |-> "id", data_type |-> "INTEGER", max_length |-> NULL, constraints |-> {PRIMARY_KEY}],
      [name |-> "user_id", data_type |-> "INTEGER", max_length |-> NULL, constraints |-> {}]>>

\* f"{table}.{column}"
qualified_key(table_name, column_name) == table_name \o "." \o column_name

\* key.endswith(f".{col_spec}"): the key is some table prefix, a dot, col_spec
ends_with(key, col_spec) == \E prefix \in TableNames : key = qualified_key(prefix, col_spec)

\* (mutant) combine_rows that leaves the keys of the left row as they are
combine_rows_left_unqualified(left_row, right_row, left_table, right_table) ==
    LET right_keys == {qualified_key(right_table, k) : k \in DOMAIN right_row}
    IN  [key \in (DOMAIN left_row) \cup right_keys |->
            IF key \in right_keys
            THEN right_row[CHOOSE k \in DOMAIN right_row : qualified_key(right_table, k) = key]
            ELSE left_row[key]]

\* combine_rows: every key table-qualified; the right row is written second
combine_rows(left_row, right_row, left_table, right_table) ==
    LET right_keys == {qualified_key(right_table, k) : k \in DOMAIN right_row}
        left_keys == {qualified_key(left_table, k) : k \in DOMAIN left_row}
    IN  [key \in left_keys \cup right_keys |->
            IF key \in right_keys
            THEN right_row[CHOOSE k \in DOMAIN right_row : qualified_key(right_table, k) = key]
            ELSE left_row[CHOOSE k \in DOMAIN left_row : qualified_key(left_table, k) = key]]

\* the keys of a combined row in dict order: the left row's columns, then the
\* right row's
combined_key_order(left_table, right_table) ==
    [i \in 1..(Len(left_table.column_order) + Len(right_table.column_order)) |->
        IF i <= Len(left_table.column_order)
        THEN qualified_key(left_table.name, left_table.column_order[i])
        ELSE qualified_key(right_table.name,
                           right_table.column_order[i - Len(left_table.column_order)])]

\* the nested loop of the join from pair k on, pairs counted left-row-major;
\* a KeyError of a join column skips the pair, an error of WHERE ends the
\* statement
\* (mutant) the nested loop without the handler for KeyError
RECURSIVE join_rows_raising(_, _, _, _, _, _, _, _)
join_rows_raising(left_rows, right_rows, names, left_join_col, right_join_col, where, k, result_rows) ==
    IF k > Len(left_rows) * Len(right_rows) THEN [raised |-> "None", rows |-> result_rows]
    ELSE LET left_row == left_rows[((k - 1) \div Len(right_rows)) + 1]
             right_row == right_rows[((k - 1) % Len(right_rows)) + 1]
             left_value == get_column_value(left_row, left_join_col.column_name,
                                            left_join_col.table_name)
             right_value == get_column_value(right_row, right_join_col.column_name,
                                             right_join_col.table_name)
             combined == combine_rows(left_row, right_row, names[1], names[2])
             e == evaluate(where, combined)
         IN  IF left_value.raised /= "None" \/ right_value.raised /= "None"
             THEN [raised |-> "KeyError", rows |-> <<>>]
             ELSE IF left_value.value /= right_value.value
             THEN join_rows_raising(left_rows, right_rows, names, left_join_col,
                                    right_join_col, where, k + 1, result_rows)
             ELSE IF where.kind = "None"
             THEN join_rows_raising(left_rows, right_rows, names, left_join_col,
                                    right_join_col, where, k + 1, Append(result_rows, combined))
             ELSE IF e.raised /= "None" THEN [raised |-> e.raised, rows |-> <<>>]
             ELSE join_rows_raising(left_rows, right_rows, names, left_join_col,
                                    right_join_col, where, k + 1,
                                    IF e.value THEN Append(result_rows, combined)
                                    ELSE result_rows)

RECURSIVE join_rows(_, _, _, _, _, _, _, _)
join_rows(left_rows, right_rows, names, left_join_col, right_join_col, where, k, result_rows) ==
    IF k > Len(left_rows) * Len(right_rows) THEN [raised |-> "None", rows |-> result_rows]
    ELSE LET left_row == left_rows[((k - 1) \div Len(right_rows)) + 1]
             right_row == right_rows[((k - 1) % Len(right_rows)) + 1]
             left_value == get_column_value(left_row, left_join_col.column_name,
                                            left_join_col.table_name)
             right_value == get_column_value(right_row, right_join_col.column_name,
                                             right_join_col.table_name)
             combined == combine_rows(left_row, right_row, names[1], names[2])
             e == evaluate(where, combined)
         IN  IF left_value.raised /= "None" \/ right_value.raised /= "None"
                \/ left_value.value /= right_value.value
             THEN join_rows(left_rows, right_rows, names, left_join_col, right_join_col,
                            where, k + 1, result_rows)
             ELSE IF where.kind = "None"
             THEN join_rows(left_rows, right_rows, names, left_join_col, right_join_col,
                            where, k + 1, Append(result_rows, combined))
             ELSE IF e.raised /= "None" THEN [raised |-> e.raised, rows |-> <<>>]
             ELSE join_rows(left_rows, right_rows, names, left_join_col, right_join_col,
                            where, k + 1,
                            IF e.value THEN Append(result_rows, combined) ELSE result_rows)

\* the key a requested name resolves to in a combined row: the name itself
\* when it is a key, else the first key that ends in ".name", "" when none does
resolve_key(row, key_order, col_spec) ==
    IF col_spec \in DOMAIN row THEN col_spec
    ELSE LET hits == {i \in 1..Len(key_order) :
                         key_order[i] \in DOMAIN row /\ ends_with(key_order[i], col_spec)}
         IN  IF hits = {} THEN "" ELSE key_order[first_such(hits)]

\* (mutant) the projection of a combined row that keeps the requested names as keys
project_joined_as_requested(row, key_order, cols) ==
    IF \E i \in 1..Len(cols) : resolve_key(row, key_order, cols[i]) = ""
    THEN [raised |-> "ColumnNotFoundError", row |-> <<>>]
    ELSE [raised |-> "None",
          row |-> [c \in {cols[i] : i \in 1..Len(cols)} |->
                      row[resolve_key(row, key_order, c)]]]

\* the projection of one combined row
project_joined(row, key_order, cols) ==
    IF \E i \in 1..Len(cols) : resolve_key(row, key_order, cols[i]) = ""
    THEN [raised |-> "ColumnNotFoundError", row |-> <<>>]
    ELSE [raised |-> "None",
          row |-> [key \in {resolve_key(row, key_order, cols[i]) : i \in 1..Len(cols)} |->
                      row[key]]]

\* _execute_select_with_join; cols is "*" or a list of names
_execute_select_with_join(left_table, right_table, left_join_col, right_join_col, cols, where) ==
    LET j == join_rows(scan(left_table), scan(right_table),
                       <<left_table.name, right_table.name>>,
                       left_join_col, right_join_col, where, 1, <<>>)
        key_order == combined_key_order(left_table, right_table)
    IN  IF j.raised /= "None" \/ cols = <<"*">> THEN j
        ELSE IF \E i \in 1..Len(j.rows) : project_joined(j.rows[i], key_order, cols).raised /= "None"
        THEN [raised |-> "ColumnNotFoundError", rows |-> <<>>]
        ELSE [raised |-> "None",
              rows |-> [i \in 1..Len(j.rows) |-> project_joined(j.rows[i], key_order, cols).row]]

\* the posts table after these rows were inserted and these row ids deleted
RECURSIVE insert_all(_, _)
insert_all(t, rows) ==
    IF rows = <<>> THEN t ELSE insert_all(insert_row(t, Head(rows)).t, Tail(rows))

PostRow(id, user_id) == ("id" :> id) @@ ("user_id" :> user_id)

\* the states of the posts table that the users table is joined with
PostsTables ==
    LET empty == Table_init(POSTS_NAME, PostsColumnList)
    IN  {empty,
         insert_all(empty, <<PostRow(1, 1)>>),
         insert_all(empty, <<PostRow(1, 1), PostRow(2, 1)>>),
         insert_all(empty, <<PostRow(1, 2), PostRow(2, NULL)>>),
         insert_all(empty, <<PostRow(1, 2), PostRow(2, 1)>>),
         delete_row(insert_all(empty, <<PostRow(1, 2), PostRow(2, 1)>>), 0).t}

-----------------------------------------------------------------------------
(* storage/database.py : Database.  A database value db is the dict          *)
(* Database._tables, table name -> table.                                      *)

\* name.upper() for the reserved words among the names that are given
upper(name) == CASE name = "select" -> "SELECT" [] name = "Table" -> "TABLE" [] OTHER -> name

RESERVED_WORDS == {"SELECT", "FROM", "WHERE", "INSERT", "UPDATE", "DELETE", "CREATE",
                   "DROP", "TABLE", "INDEX"}

\* re.match(r'^[a-zA-Z_][a-zA-Z0-9_]*$', name), for the names that are given
matches_identifier(name) == name \notin {"1st", "my table"}

\* validate_identifier: the exception it raises, "None" when it returns
validate_identifier(name) ==
    IF name = "" THEN "InvalidIdentifierError"
    ELSE IF Len(name) > 64 THEN "InvalidIdentifierError"
    ELSE IF upper(name) \in RESERVED_WORDS THEN "InvalidIdentifierError"
    ELSE IF ~matches_identifier(name) THEN "InvalidIdentifierError"
    ELSE "None"

\* Table(name, columns): the checks of the constructor, then Table_init
Table(name, column_list) ==
    IF column_list = <<>> THEN Outcome(<<>>, "ValueError", -1)
    ELSE IF Cardinality({i \in 1..Len(column_list) : is_primary_key(column_list[i])}) > 1
    THEN Outcome(<<>>, "ValueError", -1)
    ELSE Outcome(Table_init(name, column_list), "None", -1)

\* the database a call leaves behind, the exception it raises, the value it returns
DbOutcome(db, exc, ret) == [db |-> db, raised |-> exc, returned |-> ret]

\* (mutant) create_table that registers the new table before it looks for an
\* existing one
create_table_registers_first(db, table_name, column_list) ==
    IF validate_identifier(table_name) /= "None"
    THEN DbOutcome(db, validate_identifier(table_name), -1)
    ELSE IF Table(table_name, column_list).raised /= "None"
    THEN DbOutcome(db, Table(table_name, column_list).raised, -1)
    ELSE IF table_name \in DOMAIN db
    THEN DbOutcome((table_name :> Table(table_name, column_list).t) @@ db,
                   "TableAlreadyExistsError", -1)
    ELSE DbOutcome((table_name :> Table(table_name, column_list).t) @@ db, "None",
                   Table(table_name, column_list).t)

create_table(db, table_name, column_list) ==
    IF validate_identifier(table_name) /= "None"
    THEN DbOutcome(db, validate_identifier(table_name), -1)
    ELSE IF table_name \in DOMAIN db THEN DbOutcome(db, "TableAlreadyExistsError", -1)
    ELSE IF Table(table_name, column_list).raised /= "None"
    THEN DbOutcome(db, Table(table_name, column_list).raised, -1)
    ELSE DbOutcome((table_name :> Table(table_name, column_list).t) @@ db, "None",
                   Table(table_name, column_list).t)

\* (mutant) drop_table that empties the table and keeps it registered
drop_table_keeps_the_name(db, table_name) ==
    IF table_name \notin DOMAIN db THEN DbOutcome(db, "TableNotFoundError", -1)
    ELSE DbOutcome([db EXCEPT ![table_name] =
                        Table_init(table_name,
                                   [i \in 1..Len(@.column_order) |-> @.columns[@.column_order[i]]])],
                   "None", -1)

drop_table(db, table_name) ==
    IF table_name \notin DOMAIN db THEN DbOutcome(db, "TableNotFoundError", -1)
    ELSE DbOutcome(dict_del(db, table_name), "None", -1)

\* get_table: the table, or the exception
get_table(db, table_name) ==
    IF table_name \notin DOMAIN db THEN Outcome(<<>>, "TableNotFoundError", -1)
    ELSE Outcome(db[table_name], "None", -1)

has_table(db, table_name) == table_name \in DOMAIN db

\* a statement on the table it names: get_table, then the method, whose
\* outcome o is in the database afterwards
on_table(db, table_name, o) ==
    IF get_table(db, table_name).raised /= "None"
    THEN DbOutcome(db, get_table(db, table_name).raised, -1)
    ELSE DbOutcome([db EXCEPT ![table_name] = o.t], o.raised, o.returned)

\* QueryExecutor.execute: a statement is the tuple of its kind, the table it
\* names and its further parts; SELECT returns its rows
execute(db, stmt) ==
    CASE stmt[1] = "CREATE TABLE" ->
            DbOutcome(create_table(db, stmt[2], stmt[3]).db,
                      create_table(db, stmt[2], stmt[3]).raised, -1)
      [] stmt[1] = "DROP TABLE" -> drop_table(db, stmt[2])
      [] stmt[1] = "CREATE INDEX" ->
            on_table(db, stmt[2], create_index(db[stmt[2]], stmt[3]))
      [] stmt[1] = "INSERT" ->
            on_table(db, stmt[2], _execute_insert(db[stmt[2]], stmt[3]))
      [] stmt[1] = "UPDATE" ->
            on_table(db, stmt[2], _execute_update(db[stmt[2]], stmt[3], stmt[4]))
      [] stmt[1] = "DELETE" ->
            on_table(db, stmt[2], _execute_delete(db[stmt[2]], stmt[3]))
      [] stmt[1] = "SELECT" ->
            on_table(db, stmt[2],
                     Outcome(db[stmt[2]],
                             _execute_select(db[stmt[2]], stmt[3], stmt[4]).raised,
                             _execute_select(db[stmt[2]], stmt[3], stmt[4]).rows))
      [] stmt[1] = "SELECT JOIN" ->
            IF get_table(db, stmt[2]).raised /= "None"
            THEN DbOutcome(db, get_table(db, stmt[2]).raised, -1)
            ELSE IF get_table(db, stmt[3]).raised /= "None"
            THEN DbOutcome(db, get_table(db, stmt[3]).raised, -1)
            ELSE LET r == _execute_select_with_join(db[stmt[2]], db[stmt[3]],
                                                    stmt[4], stmt[5], stmt[6], stmt[7])
                 IN  DbOutcome(db, r.raised, r.rows)

-----------------------------------------------------------------------------
(* The table object under test and the calls made on it *)

self == [name |-> TABLE_NAME, columns |-> columns, column_order |-> column_order,
         _rows |-> _rows, _next_row_id |-> _next_row_id,
         _deleted_row_ids |-> _deleted_row_ids, _indexes |-> _indexes]

\* the fields of the object after a call, its exception and its return value
Becomes(o) ==
    /\ columns' = o.t.columns
    /\ _rows' = o.t._rows
    /\ _next_row_id' = o.t._next_row_id
    /\ _deleted_row_ids' = o.t._deleted_row_ids
    /\ _indexes' = o.t._indexes
    /\ UNCHANGED <<_tables, _index>>
    /\ raised' = o.raised
    /\ returned' = o.returned

\* the call that was made, and the object, exception and return value after it
Call(name, args, o) ==
    /\ op' = [name |-> name, args |-> args]
    /\ Becomes(o)

Init ==
    LET t == Table_init(TABLE_NAME, ColumnList(UsersColumns))
    IN  /\ columns = t.columns
        /\ _rows = t._rows
        /\ _next_row_id = t._next_row_id
        /\ _deleted_row_ids = t._deleted_row_ids
        /\ _indexes = t._indexes
        /\ _tables = EmptyDict
        /\ _index = EmptyDict
        /\ op = [name |-> "Table", args |-> <<>>]
        /\ raised = "None"
        /\ returned = -1

InputNames == ColumnNames \cup {UNKNOWN_COLUMN}

\* row ids a caller passes: the assigned ones and one that never is
RowIds == 0..MaxRows

\* row_data dicts of insert_row: the well-typed rows with an email, with an
\* explicit None for it or without it, and one dict for each way a call can be
\* malformed (no primary key, no age, a value of the wrong type, an unknown column)
InsertInputs ==
    {("id" :> i) @@ ("age" :> 1) : i \in IntValues}
    \cup {("id" :> i) @@ ("email" :> e) @@ ("age" :> 1) :
             i \in IntValues, e \in StrValues \cup {NULL}}
    \cup {("email" :> e) @@ ("age" :> 1) : e \in StrValues}
    \cup {("id" :> 1) @@ ("email" :> e) : e \in StrValues}
    \cup {("id" :> 1) @@ ("email" :> 1) @@ ("age" :> 1),
          ("id" :> 1) @@ ("age" :> 1) @@ (UNKNOWN_COLUMN :> 1),
          ("id" :> 1) @@ ("age" :> NULL),
          ("id" :> NULL) @@ ("age" :> 1)}

\* assignments of update_row: <<column, new value>>
Assignments ==
    {<<"id", 1>>, <<"id", NULL>>, <<"email", NULL>>, <<"email", 11>>, <<"email", 1>>,
     <<"age", NULL>>, <<"age", 2>>, <<UNKNOWN_COLUMN, 1>>}

\* assignment dicts of update_row, in iteration order: one assignment, or an
\* assignment to id after one to another column
UpdateInputs ==
    {<<a>> : a \in Assignments}
    \cup {<<a, <<"id", 1>>>> : a \in {<<"email", 11>>, <<"age", 2>>, <<UNKNOWN_COLUMN, 1>>}}
    \cup {<<<<"id", 1>>, <<"age", 2>>>>, <<<<"email", 11>>, <<"age", NULL>>>>}

\* WHERE clauses of the statements that are executed
StatementWheres ==
    {NoCondition,
     Comparison(ColumnRef("id", "None"), "=", Literal(1)),
     Comparison(ColumnRef("age", "None"), "=", Literal(2))}

\* SET clauses of UPDATE
StatementAssignments == {<<<<"age", 2>>>>, <<<<"email", 11>>>>}

(* Spec: the calls on a Table, each recorded with its arguments *)

InsertRow ==
    \E row_data \in InsertInputs :
        /\ _next_row_id < MaxRows
        /\ Call("insert_row", <<row_data>>, insert_row(self, row_data))

\* the recorded calls of update_row: every assignment dict on the first two
\* rows (live, deleted or not yet inserted) and two on the id that is never
\* assigned
UpdateCalls ==
    {<<id, u>> : id \in {0, 1}, u \in UpdateInputs}
    \cup {<<MaxRows, u>> : u \in {<<<<"age", 2>>>>, <<<<"id", 1>>>>}}

UpdateRow ==
    \E call \in UpdateCalls :
        Call("update_row", call, update_row(self, call[1], call[2]))

DeleteRow ==
    \E row_id \in RowIds :
        Call("delete_row", <<row_id>>, delete_row(self, row_id))

CreateIndex ==
    \E column_name \in {"age", UNKNOWN_COLUMN} :
        Call("create_index", <<column_name>>, create_index(self, column_name))

DropIndex ==
    \E column_name \in {"age", "id", "email", UNKNOWN_COLUMN} :
        Call("drop_index", <<column_name>>, drop_index(self, column_name))

\* WHERE clauses of the recorded DELETE statements
DeleteWheres == {NoCondition, Comparison(ColumnRef("id", "None"), "=", Literal(1))}

ExecuteDelete ==
    \E where \in DeleteWheres :
        Call("DELETE", <<where>>, _execute_delete(self, where))

Next ==
    \/ InsertRow
    \/ UpdateRow
    \/ DeleteRow
    \/ CreateIndex
    \/ DropIndex
    \/ ExecuteDelete

Spec == Init /\ [][Next]_vars

(* SpecState: the same calls and the UPDATE statement over wider inputs; the *)
(* calls are not recorded, only the table they leave behind.  It is the     *)
(* specification of the claims about the states a table can be in.          *)

TableBecomes(o) ==
    /\ columns' = o.t.columns
    /\ _rows' = o.t._rows
    /\ _next_row_id' = o.t._next_row_id
    /\ _deleted_row_ids' = o.t._deleted_row_ids
    /\ _indexes' = o.t._indexes
    /\ UNCHANGED <<_tables, _index, op, raised, returned>>

AnyInsertValues(k) ==
    CASE k = "id"    -> IntValues
      [] k = "email" -> StrValues \cup {NULL, 1}
      [] k = "age"   -> IntValues
      [] OTHER       -> {1}

\* any subset of the columns, or id and age with a column the table lacks
AnyInsertInputs ==
    UNION {{d \in [S -> 0..11] : \A k \in S : d[k] \in AnyInsertValues(k)} :
              S \in (SUBSET ColumnNames) \cup {{"id", "age", UNKNOWN_COLUMN}}}

\* one assignment, or two to different columns
AnyAssignments ==
    ({"id"} \X IntValues) \cup ({"email"} \X (StrValues \cup {NULL, 1}))
    \cup ({"age"} \X (IntValues \cup {NULL})) \cup {<<UNKNOWN_COLUMN, 1>>}

AnyUpdateInputs ==
    {<<a>> : a \in AnyAssignments}
    \cup {u \in {<<a, b>> : a \in AnyAssignments, b \in AnyAssignments} :
             u[1][1] /= u[2][1] /\ u[1][2] /= 1 /\ u[2][2] /= 1}

AnyInsertRow ==
    \E row_data \in AnyInsertInputs :
        /\ _next_row_id < MaxRows
        /\ TableBecomes(insert_row(self, row_data))

AnyUpdateRow ==
    \E row_id \in RowIds, updates \in AnyUpdateInputs :
        TableBecomes(update_row(self, row_id, updates))

AnyDeleteRow ==
    \E row_id \in RowIds :
        TableBecomes(delete_row(self, row_id))

AnyCreateIndex ==
    \E column_name \in {"age", UNKNOWN_COLUMN} :
        TableBecomes(create_index(self, column_name))

AnyDropIndex ==
    \E column_name \in {"age", "id"} :
        TableBecomes(drop_index(self, column_name))

AnyExecuteUpdate ==
    \E assignments \in StatementAssignments, where \in StatementWheres :
        TableBecomes(_execute_update(self, assignments, where))

AnyExecuteDelete ==
    \E where \in DeleteWheres :
        TableBecomes(_execute_delete(self, where))

NextState ==
    \/ AnyInsertRow
    \/ AnyUpdateRow
    \/ AnyDeleteRow
    \/ AnyCreateIndex
    \/ AnyDropIndex
    \/ AnyExecuteUpdate
    \/ AnyExecuteDelete

SpecState == Init /\ [][NextState]_vars

-----------------------------------------------------------------------------
(* Conditions the planner and the evaluator are examined on *)

Col(c) == ColumnRef(c, "None")

\* column against literal in both operand orders, literal against literal,
\* column against column, a table-qualified column
Comparisons ==
    {Comparison(Col(c), o, Literal(v)) :
        c \in ColumnNames, o \in {"=", "!="}, v \in {NULL, 1, 11}}
    \cup {Comparison(Literal(v), "=", Col(c)) : c \in ColumnNames, v \in {NULL, 1, 11}}
    \cup {Comparison(Col(c), "<", Literal(2)) : c \in ColumnNames}
    \cup {Comparison(Literal(1), "=", Literal(1)),
          Comparison(Col("id"), "=", Col("age")),
          Comparison(ColumnRef("id", TABLE_NAME), "=", Literal(1)),
          Comparison(Literal(2), "=", ColumnRef("age", TABLE_NAME))}

LogicalOperands ==
    {Comparison(Col("id"), "=", Literal(1)),
     Comparison(Literal(11), "=", Col("email")),
     Comparison(Col("age"), "<", Literal(2))}

Conditions ==
    Comparisons
    \cup {c \in {LogicalCondition(l, o, r) :
                    l \in LogicalOperands, o \in {"AND", "OR"}, r \in LogicalOperands} :
             c.left /= c.right}

\* the rows of a sequence as a bag: row -> number of occurrences
BagOf(rows) ==
    [r \in {rows[i] : i \in 1..Len(rows)} |->
        Cardinality({i \in 1..Len(rows) : rows[i] = r})]

\* the table after the step
selfNext == [name |-> TABLE_NAME, columns |-> columns', column_order |-> column_order,
             _rows |-> _rows', _next_row_id |-> _next_row_id',
             _deleted_row_ids |-> _deleted_row_ids', _indexes |-> _indexes']

TableUnchanged == UNCHANGED <<columns, _rows, _next_row_id, _deleted_row_ids, _indexes>>

LiveIds == {_rows[i][ROW_ID] : i \in 1..Len(_rows)} \ _deleted_row_ids

\* the stored row of a live id
RowOf(id) == _rows[CHOOSE i \in 1..Len(_rows) : _rows[i][ROW_ID] = id]

NonNullValues == IntValues \cup StrValues

Ids(seq) == {seq[i] : i \in 1..Len(seq)}

NoRepeat(seq) == \A i, j \in 1..Len(seq) : i /= j => seq[i] /= seq[j]

-----------------------------------------------------------------------------
\* C1: in every reachable state, for every indexed column c and every non-null
\* value v (and every key the index holds), search(v) returns exactly the ids of
\* the live rows whose current value in c is v, none of them twice.
C1_IndexMatchesLiveRows ==
    \A c \in DOMAIN _indexes :
        \A v \in NonNullValues \cup DOMAIN _indexes[c] :
            LET ids == HashIndex_search(_indexes[c], v)
            IN  /\ Ids(ids) = {id \in LiveIds : RowOf(id)[c] = v}
                /\ NoRepeat(ids)

\* the table holds a deleted row and a live one whose age was updated to 2,
\* and the index that create_index built on age holds the live row
C1_Witness ==
    /\ "age" \in DOMAIN _indexes
    /\ _deleted_row_ids /= {}
    /\ DOMAIN _indexes["age"] = {2}

-----------------------------------------------------------------------------
\* the positions of the live rows that satisfy a condition (evaluation of the
\* conditions used here never raises on a row of the table)
LiveMatches(P) ==
    {i \in 1..Len(_rows) :
        /\ _rows[i][ROW_ID] \notin _deleted_row_ids
        /\ (P.kind = "None" \/ evaluate(P, _strip_internal_id(_rows[i])).value)}

\* the deleted identifiers are in no index, get_row does not find them, scan
\* yields live rows only, the planner returns as many rows as live rows match
\* and the re-location of UPDATE / DELETE never lands on a deleted row
DeletedRowsAbsent ==
    /\ \A id \in _deleted_row_ids :
          /\ \A c \in DOMAIN _indexes : \A v \in DOMAIN _indexes[c] :
                id \notin Ids(HashIndex_search(_indexes[c], v))
          /\ ~get_row(self, id).found
    /\ \A j \in Ids(live_positions(self, 1)) : _rows[j][ROW_ID] \notin _deleted_row_ids
    /\ Len(scan(self)) = Cardinality(LiveIds)
    /\ \A P \in StatementWheres \cup LogicalOperands :
          LET m == get_matching_rows(self, P)
          IN  /\ m.raised = "None"
              /\ Len(m.rows) = Cardinality(LiveMatches(P))
              /\ \A k \in 1..Len(m.rows) :
                    /\ \E i \in LiveMatches(P) : m.rows[k] = _strip_internal_id(_rows[i])
                    /\ relocate(self, m.rows[k]) \in LiveMatches(NoCondition)

\* C5: once delete_row(id) has returned true the identifier stays deleted, and
\* a deleted identifier is in no index's search result, is absent for get_row,
\* is not yielded by scan and is matched by no SELECT, UPDATE or DELETE,
\* whatever calls follow.
C5_DeletedNeverReturns ==
    /\ [](DeletedRowsAbsent)
    /\ [][/\ _deleted_row_ids \subseteq _deleted_row_ids'
          /\ \A id \in RowIds :
                delete_row(self, id).returned = 1 /\ selfNext = delete_row(self, id).t
                    => id \in _deleted_row_ids']_vars

\* a row has been deleted and an index on age was created afterwards, or kept,
\* while another row with the same values is live
C5_Witness ==
    /\ _deleted_row_ids /= {}
    /\ "age" \in DOMAIN _indexes
    /\ \E i, j \in 1..Len(_rows) :
          /\ _rows[i][ROW_ID] \in _deleted_row_ids
          /\ _rows[j][ROW_ID] \notin _deleted_row_ids
          /\ _strip_internal_id(_rows[i]) = _strip_internal_id(_rows[j])

-----------------------------------------------------------------------------
\* C9: for every condition over the table's columns, get_matching_rows returns
\* the rows (with multiplicities) that filtering scan() through the evaluator
\* returns, and raises exactly when that filter raises; after create_index or
\* drop_index on any column the query returns the same rows as before.
C9_PlannerEqualsFilteredScan ==
    \A P \in Conditions :
        LET m == get_matching_rows(self, P)
            f == filter_rows(P, scan(self), <<>>)
        IN  /\ m.raised = f.raised
            /\ BagOf(m.rows) = BagOf(f.rows)
            /\ \A c \in ColumnNames :
                  /\ BagOf(get_matching_rows(create_index(self, c).t, P).rows) = BagOf(m.rows)
                  /\ BagOf(get_matching_rows(drop_index(self, c).t, P).rows) = BagOf(m.rows)

\* an index on age answers age = 2 with two rows, the first stored of which
\* comes second in the index because it was updated to 2 later
C9_Witness ==
    /\ "age" \in DOMAIN _indexes
    /\ 2 \in DOMAIN _indexes["age"]
    /\ Len(_indexes["age"][2]) = 2
    /\ _indexes["age"][2][1] > _indexes["age"][2][2]
    /\ Len(get_matching_rows(self, Comparison(Literal(2), "=", ColumnRef("age", TABLE_NAME))).rows) = 2

-----------------------------------------------------------------------------
\* what the claim says of a condition: an equality between a column reference
\* and a non-null literal, in either order, on a column that has an index
IsIndexedEquality(P) ==
    /\ P.kind = "Comparison"
    /\ P.op = "="
    /\ \/ /\ P.left.kind = "ColumnRef" /\ P.right.kind = "Literal"
          /\ P.right.value /= NULL
          /\ P.left.column_name \in DOMAIN _indexes
       \/ /\ P.left.kind = "Literal" /\ P.right.kind = "ColumnRef"
          /\ P.left.value /= NULL
          /\ P.right.column_name \in DOMAIN _indexes

-----------------------------------------------------------------------------
(* What the claims say of a call, stated on the arguments and on the table  *)
(* before the call                                                          *)

UniqueColumns == {c \in ColumnNames : is_unique(columns[c])}

PrimaryKey == CHOOSE c \in ColumnNames : is_primary_key(columns[c])

\* the ids of the live rows of table t that hold v in column c
HeldIn(t, c, v) ==
    {t._rows[i][ROW_ID] : i \in {j \in 1..Len(t._rows) :
                                    is_live(t, t._rows[j]) /\ t._rows[j][c] = v}}

\* the live rows that hold v in column c
HeldBy(c, v) == HeldIn(self, c, v)

\* the row insert_row builds from row_data: None for every column left out
Complete(d) == [c \in ColumnNames |-> IF c \in DOMAIN d THEN d[c] ELSE NULL]

\* row_data names known columns only and every value passes Column.validate
WellFormed(d) ==
    /\ DOMAIN d \subseteq ColumnNames
    /\ \A c \in ColumnNames : validate(columns[c], Complete(d)[c]) = "None"

\* some PRIMARY KEY / UNIQUE value of the row is held by a live row
InsertCollides(d) ==
    \E c \in UniqueColumns : Complete(d)[c] /= NULL /\ HeldBy(c, Complete(d)[c]) /= {}

\* an assignment to a known column other than the primary key, of a valid value
AssignmentValid(a) ==
    /\ a[1] \in ColumnNames
    /\ ~is_primary_key(columns[a[1]])
    /\ validate(columns[a[1]], a[2]) = "None"

\* the assignment gives row id a UNIQUE value that another live row holds
AssignmentCollides(id, a) ==
    /\ a[1] \in UniqueColumns
    /\ a[2] /= NULL
    /\ HeldBy(a[1], a[2]) \ {id} /= {}

AssignedColumns(u) == {u[k][1] : k \in 1..Len(u)}

NoTwoLiveRowsShareAUniqueValue ==
    \A c \in UniqueColumns : \A i, j \in LiveIds :
        i /= j /\ RowOf(i)[c] /= NULL => RowOf(i)[c] /= RowOf(j)[c]

\* C2: no two live rows hold the same non-null value in a PRIMARY KEY or UNIQUE
\* column; an insert_row or update_row that would create such a pair raises
\* DuplicateKeyError and changes nothing; an otherwise valid call that creates
\* no such pair succeeds, in particular an update_row that gives a UNIQUE column
\* the value the row already holds and an insert_row of one more None.
C2_UniqueValuesStayUnique ==
    [][/\ NoTwoLiveRowsShareAUniqueValue'
       /\ op'.name = "insert_row" /\ WellFormed(op'.args[1]) =>
             IF InsertCollides(op'.args[1])
             THEN raised' = "DuplicateKeyError" /\ TableUnchanged
             ELSE raised' = "None"
       /\ (/\ op'.name = "update_row"
           /\ op'.args[1] \in LiveIds
           /\ \A k \in 1..Len(op'.args[2]) : AssignmentValid(op'.args[2][k])) =>
             IF \E k \in 1..Len(op'.args[2]) : AssignmentCollides(op'.args[1], op'.args[2][k])
             THEN raised' = "DuplicateKeyError" /\ TableUnchanged
             ELSE raised' = "None" /\ returned' = 1]_vars

\* update_row has just been refused the email that the other live row holds
C2_Witness ==
    /\ op.name = "update_row"
    /\ raised = "DuplicateKeyError"
    /\ op.args[2] = <<<<"email", 11>>>>
    /\ HeldBy("email", 11) \ {op.args[1]} /= {}
    /\ op.args[1] \in LiveIds

-----------------------------------------------------------------------------
\* C3 as claimed: insert_row of a non-null primary-key value that a live row
\* holds fails with DuplicateKeyError; of a value that only deleted rows hold it
\* succeeds and the new row is the only live row with the value.
C3_AsClaimed ==
    [][(/\ op'.name = "insert_row"
        /\ PrimaryKey \in DOMAIN op'.args[1]
        /\ op'.args[1][PrimaryKey] /= NULL) =>
          LET v == op'.args[1][PrimaryKey]
          IN  IF HeldBy(PrimaryKey, v) /= {}
              THEN raised' = "DuplicateKeyError"
              ELSE (\E i \in 1..Len(_rows) : _rows[i][PrimaryKey] = v) =>
                      raised' = "None" /\ HeldIn(selfNext, PrimaryKey, v) = {returned'}]_vars

\* C3 (amended): insert_row of a non-null primary-key value that a live row
\* holds always fails and inserts nothing, with DuplicateKeyError when the row
\* passes the earlier checks (known columns, validation); once the holder has
\* been deleted, insert_row of a valid row with that value whose UNIQUE values
\* no live row holds succeeds and the new row is the only live row with it.
C3_DuplicateKeyUntilDeleted ==
    [][(/\ op'.name = "insert_row"
        /\ PrimaryKey \in DOMAIN op'.args[1]
        /\ op'.args[1][PrimaryKey] /= NULL) =>
          LET d == op'.args[1]
              v == d[PrimaryKey]
          IN  IF HeldBy(PrimaryKey, v) /= {}
              THEN /\ raised' /= "None"
                   /\ TableUnchanged
                   /\ WellFormed(d) => raised' = "DuplicateKeyError"
              ELSE WellFormed(d) /\ ~InsertCollides(d) =>
                      /\ raised' = "None"
                      /\ HeldIn(selfNext, PrimaryKey, v) = {returned'}
                      /\ returned' = _next_row_id]_vars

\* a primary-key value is live again after the row that held it was deleted
C3_Witness ==
    /\ op.name = "insert_row" /\ raised = "None"
    /\ \E i \in 1..Len(_rows) :
          /\ _rows[i][ROW_ID] \in _deleted_row_ids
          /\ _rows[i][PrimaryKey] = op.args[1][PrimaryKey]
    /\ HeldBy(PrimaryKey, op.args[1][PrimaryKey]) = {returned}

-----------------------------------------------------------------------------
\* C4: an insert_row that raises leaves the table as it was: no row appended,
\* no identifier consumed, every index and row_count unchanged.
C4_FailedInsertChangesNothing ==
    [][op'.name = "insert_row" /\ raised' /= "None" =>
          /\ _rows' = _rows
          /\ _next_row_id' = _next_row_id
          /\ _indexes' = _indexes
          /\ _deleted_row_ids' = _deleted_row_ids
          /\ row_count(selfNext) = row_count(self)]_vars

\* insert_row has raised DuplicateKeyError on a table with a row and three indexes
C4_Witness ==
    /\ op.name = "insert_row"
    /\ raised = "DuplicateKeyError"
    /\ LiveIds /= {}
    /\ DOMAIN _indexes = ColumnNames

-----------------------------------------------------------------------------
\* C6: delete_row and update_row with an identifier that was never assigned or
\* is deleted return False and change nothing; delete_row of a live identifier
\* returns True, and the same call again returns False.
C6_AbsentRowIsNoOp ==
    [][/\ (op'.name \in {"delete_row", "update_row"} /\ op'.args[1] \notin LiveIds) =>
             /\ returned' = 0
             /\ raised' = "None"
             /\ TableUnchanged
             /\ row_count(selfNext) = row_count(self)
       /\ (op'.name = "delete_row" /\ op'.args[1] \in LiveIds) => returned' = 1
       /\ (op.name = "delete_row" /\ returned = 1 /\ op' = op) => returned' = 0]_vars

\* delete_row has returned False for an identifier that is deleted
C6_Witness ==
    /\ op.name = "delete_row"
    /\ returned = 0
    /\ op.args[1] \in _deleted_row_ids
    /\ DOMAIN _indexes = ColumnNames

-----------------------------------------------------------------------------
\* C7 as claimed: update_row on a live row with an assignment to the
\* primary-key column raises ConstraintViolationError, and an update_row that
\* raises leaves the rows and the indexes unchanged.
C7_AsClaimed ==
    [][(op'.name = "update_row" /\ op'.args[1] \in LiveIds) =>
          /\ PrimaryKey \in AssignedColumns(op'.args[2]) =>
                raised' = "ConstraintViolationError"
          /\ raised' /= "None" => TableUnchanged]_vars

\* C7 (amended): update_row on a live row with an assignment to the primary-key
\* column always raises, also when the new value is the current one, and it
\* raises ConstraintViolationError unless an earlier assignment of the same
\* call has raised its own error first; an update_row that raises leaves the
\* rows and the indexes unchanged, whatever its other assignments are.
C7_PrimaryKeyIsNotUpdated ==
    [][(op'.name = "update_row" /\ op'.args[1] \in LiveIds) =>
          LET id == op'.args[1]
              u == op'.args[2]
          IN  /\ \A k \in 1..Len(u) :
                    u[k][1] = PrimaryKey =>
                       /\ raised' /= "None"
                       /\ (\A j \in 1..(k - 1) :
                              AssignmentValid(u[j]) /\ ~AssignmentCollides(id, u[j]))
                             => raised' = "ConstraintViolationError"
              /\ raised' /= "None" => TableUnchanged]_vars

\* update_row has refused age := 2 together with id := its current value
C7_Witness ==
    /\ op.name = "update_row"
    /\ op.args[1] \in LiveIds
    /\ op.args[2] = <<<<"age", 2>>, <<"id", 1>>>>
    /\ RowOf(op.args[1])["id"] = 1
    /\ RowOf(op.args[1])["age"] = 1
    /\ raised = "ConstraintViolationError"

-----------------------------------------------------------------------------
\* C8: right after a successful insert_row of V, SELECT * WHERE pk = V[pk]
\* returns exactly one row; it has V's value in every column of V, None in
\* every column V leaves out, and no internal row identifier.
C8_InsertThenSelectByKey ==
    (op.name = "insert_row" /\ raised = "None") =>
        LET V == op.args[1]
            r == _execute_select(self, <<"*">>,
                     Comparison(Col(PrimaryKey), "=", Literal(V[PrimaryKey])))
        IN  /\ r.raised = "None"
            /\ Len(r.rows) = 1
            /\ DOMAIN r.rows[1] = ColumnNames
            /\ \A c \in ColumnNames :
                  r.rows[1][c] = IF c \in DOMAIN V THEN V[c] ELSE NULL

\* a row without an email has been inserted while another row is live
C8_Witness ==
    /\ op.name = "insert_row" /\ raised = "None"
    /\ "email" \notin DOMAIN op.args[1]
    /\ Cardinality(LiveIds) = 2

-----------------------------------------------------------------------------
(* SpecStatements: INSERT, UPDATE and DELETE statements, each recorded with *)
(* its clauses, on the users table and on a table of the same columns       *)
(* without PRIMARY KEY and UNIQUE, which can hold identical rows.           *)

\* CREATE TABLE users(id INTEGER, email VARCHAR, age INTEGER NOT NULL)
UnkeyedColumns ==
    [c \in ColumnNames |->
        CASE c = "id"    -> [name |-> c, data_type |-> "INTEGER", max_length |-> NULL, constraints |-> {}]
          [] c = "email" -> [name |-> c, data_type |-> "VARCHAR", max_length |-> NULL, constraints |-> {}]
          [] c = "age"   -> [name |-> c, data_type |-> "INTEGER", max_length |-> NULL, constraints |-> {NOT_NULL}]]

InitStatements ==
    \E cols \in {UsersColumns, UnkeyedColumns} :
        LET t == Table_init(TABLE_NAME, ColumnList(cols))
        IN  /\ columns = t.columns
            /\ _rows = t._rows
            /\ _next_row_id = t._next_row_id
            /\ _deleted_row_ids = t._deleted_row_ids
            /\ _indexes = t._indexes
            /\ _tables = EmptyDict
            /\ _index = EmptyDict
            /\ op = [name |-> "Table", args |-> <<>>]
            /\ raised = "None"
            /\ returned = -1

\* the rows of the INSERT statements
StatementRows ==
    {("id" :> i) @@ ("email" :> e) @@ ("age" :> 1) :
        i \in IntValues, e \in StrValues \cup {NULL}}

\* WHERE clauses of the recorded UPDATE and DELETE statements
WhereClauses ==
    StatementWheres \cup {Comparison(Col("email"), "!=", Literal(11))}

\* SET clauses of the recorded UPDATE statements
SetClauses ==
    StatementAssignments \cup {<<<<"age", NULL>>>>}

StatementInsert ==
    /\ _next_row_id < MaxRows
    /\ \E row_data \in StatementRows :
          Call("INSERT", <<row_data>>, _execute_insert(self, row_data))

StatementCreateIndex ==
    Call("CREATE INDEX", <<"age">>, create_index(self, "age"))

StatementUpdate ==
    \E assignments \in SetClauses, where \in WhereClauses :
        Call("UPDATE", <<assignments, where>>, _execute_update(self, assignments, where))

StatementDelete ==
    \E where \in WhereClauses :
        Call("DELETE", <<where>>, _execute_delete(self, where))

NextStatements ==
    \/ StatementInsert
    \/ StatementCreateIndex
    \/ StatementUpdate
    \/ StatementDelete

SpecStatements == InitStatements /\ [][NextStatements]_vars

\* positions of the live rows that satisfy the WHERE clause (all of them when
\* there is none), by the evaluator on each row
Satisfying(where) ==
    {i \in 1..Len(_rows) :
        /\ _rows[i][ROW_ID] \notin _deleted_row_ids
        /\ \/ where.kind = "None"
           \/ LET e == evaluate(where, _strip_internal_id(_rows[i]))
              IN  e.raised = "None" /\ e.value}

\* the row with the SET clause applied
Assigned(row, assignments) ==
    [k \in DOMAIN row |->
        IF \E j \in 1..Len(assignments) : assignments[j][1] = k
        THEN assignments[CHOOSE j \in 1..Len(assignments) : assignments[j][1] = k][2]
        ELSE row[k]]

\* two live rows that are equal in every column
IdenticalLiveRows ==
    \E i, j \in 1..Len(_rows) :
        /\ i < j
        /\ {_rows[i][ROW_ID], _rows[j][ROW_ID]} \cap _deleted_row_ids = {}
        /\ _strip_internal_id(_rows[i]) = _strip_internal_id(_rows[j])

\* C11: an UPDATE statement that raises nothing returns the number of live rows
\* that satisfied its WHERE clause when it started (all live rows without one);
\* afterwards exactly those rows carry the assigned values, and every other
\* row, every unassigned column and the set of deleted rows are as before.
C11_UpdateCountsAndChangesMatches ==
    [][(op'.name = "UPDATE" /\ raised' = "None") =>
          LET assignments == op'.args[1]
              M == Satisfying(op'.args[2])
          IN  /\ returned' = Cardinality(M)
              /\ Len(_rows') = Len(_rows)
              /\ _deleted_row_ids' = _deleted_row_ids
              /\ \A i \in 1..Len(_rows) :
                    _rows'[i] = IF i \in M THEN Assigned(_rows[i], assignments)
                                ELSE _rows[i]]_vars

\* UPDATE SET age = 2 WHERE age = 2 has counted two identical live rows
C11_Witness ==
    /\ op.name = "UPDATE" /\ raised = "None" /\ returned = 2
    /\ op.args = <<<<<<"age", 2>>>>, Comparison(Col("age"), "=", Literal(2))>>
    /\ IdenticalLiveRows

\* C12: a DELETE statement that completes returns the number of live rows that
\* satisfied its WHERE clause when it started (all live rows without one);
\* afterwards exactly those rows have joined the deleted ones, no stored row
\* has changed, and row_count has dropped by the returned count.
C12_DeleteCountsAndRemovesMatches ==
    [][(op'.name = "DELETE" /\ raised' = "None") =>
          LET M == Satisfying(op'.args[1])
          IN  /\ returned' = Cardinality(M)
              /\ _rows' = _rows
              /\ _deleted_row_ids' = _deleted_row_ids \cup {_rows[i][ROW_ID] : i \in M}
              /\ row_count(selfNext) = row_count(self) - returned']_vars

\* DELETE WHERE age = 2 has removed two identical rows through the age index
C12_Witness ==
    /\ op.name = "DELETE" /\ raised = "None" /\ returned = 2
    /\ op.args = <<Comparison(Col("age"), "=", Literal(2))>>
    /\ "age" \in DOMAIN _indexes
    /\ Cardinality(_deleted_row_ids) = 2
    /\ _strip_internal_id(_rows[1]) = _strip_internal_id(_rows[2])

-----------------------------------------------------------------------------
(* SELECT with INNER JOIN *)

\* the join conditions: ON users.<c> = posts.<c>, qualified
JoinConditions ==
    {<<ColumnRef("id", TABLE_NAME), ColumnRef("user_id", POSTS_NAME)>>,
     <<ColumnRef("email", TABLE_NAME), ColumnRef("user_id", POSTS_NAME)>>,
     <<ColumnRef("id", TABLE_NAME), ColumnRef("id", POSTS_NAME)>>}

\* the WHERE clauses of the joined statements
JoinWheres ==
    {NoCondition,
     Comparison(ColumnRef("id", POSTS_NAME), "=", Literal(1)),
     Comparison(ColumnRef("age", TABLE_NAME), ">=", Literal(1)),
     Comparison(ColumnRef("email", TABLE_NAME), "!=", ColumnRef("user_id", POSTS_NAME))}

\* the positions of the live rows of a table, in insertion order
LivePositions(t) == {i \in 1..Len(t._rows) : t._rows[i][ROW_ID] \notin t._deleted_row_ids}

\* the row the claims expect for the pair of the stored rows l and r: one key
\* table.column per column of each table
CombinedRow(l, r) ==
    [key \in {qualified_key(TABLE_NAME, c) : c \in ColumnNames}
             \cup {qualified_key(POSTS_NAME, c) : c \in {"id", "user_id"}} |->
        CASE key = "users.id" -> l["id"]
          [] key = "users.email" -> l["email"]
          [] key = "users.age" -> l["age"]
          [] key = "posts.id" -> r["id"]
          [] key = "posts.user_id" -> r["user_id"]]

\* the pair of stored rows (l, r) is joined by ON a = b and kept by WHERE
PairJoins(l, r, on, where) ==
    /\ l[on[1].column_name] = r[on[2].column_name]
    /\ \/ where.kind = "None"
       \/ evaluate(where, CombinedRow(l, r)).value

\* all pairs of positions, left-row-major and right-row-minor
AllPairs(posts) ==
    [k \in 1..(Len(_rows) * Len(posts._rows)) |->
        <<((k - 1) \div Len(posts._rows)) + 1, ((k - 1) % Len(posts._rows)) + 1>>]

\* the combined rows a '*' join is expected to return
ExpectedJoin(posts, on, where) ==
    LET Kept(p) == /\ p[1] \in LivePositions(self)
                   /\ p[2] \in LivePositions(posts)
                   /\ PairJoins(_rows[p[1]], posts._rows[p[2]], on, where)
        kept == SelectSeq(AllPairs(posts), Kept)
    IN  [i \in 1..Len(kept) |-> CombinedRow(_rows[kept[i][1]], posts._rows[kept[i][2]])]

\* C13: a SELECT * with a join returns exactly the combined rows of the pairs
\* of live rows (l, r) whose join-column values are equal and which satisfy
\* WHERE, left-row-major and right-row-minor in insertion order, every
\* combined row keyed by table.column for each column of both tables and by
\* nothing else.
C13_JoinReturnsMatchingPairsInOrder ==
    \A posts \in PostsTables, on \in JoinConditions, where \in JoinWheres :
        LET r == _execute_select_with_join(self, posts, on[1], on[2], <<"*">>, where)
        IN  /\ r.raised = "None"
            /\ r.rows = ExpectedJoin(posts, on, where)

C13_Witness ==
    /\ Len(_rows) = 2
    /\ \E posts \in PostsTables, on \in JoinConditions, where \in JoinWheres :
        LET r == _execute_select_with_join(self, posts, on[1], on[2], <<"*">>, where)
        IN  /\ where.kind /= "None"
            /\ posts._deleted_row_ids = {}
            /\ r.raised = "None"
            /\ Len(r.rows) = 2
            /\ r.rows[1]["users.id"] /= r.rows[2]["users.id"]
            /\ r.rows[1]["posts.id"] > r.rows[2]["posts.id"]

\* the column lists of the joined statements: qualified names, bare names of
\* one table, a bare name of both tables, names of no table
JoinColumnLists ==
    {<<"users.id", "posts.user_id">>, <<"email">>, <<"id">>, <<"user_id", "age">>,
     <<"zzz">>, <<"users.zzz">>, <<"posts.id", "zzz">>}

\* the joined statements with a column list: ON, WHERE
JoinProjections ==
    {<<ColumnRef("id", TABLE_NAME), ColumnRef("user_id", POSTS_NAME), NoCondition>>,
     <<ColumnRef("email", TABLE_NAME), ColumnRef("user_id", POSTS_NAME),
       Comparison(ColumnRef("id", POSTS_NAME), "=", Literal(2))>>}

\* C14: a joined SELECT with a column list resolves each requested name, in
\* each combined row, to that name when it is a key and otherwise to a key
\* ending in ".name", and the output row carries the value under that
\* qualified key and has no other key; when a requested name resolves to no
\* key of a combined row, the statement fails with ColumnNotFoundError.
C14_JoinedProjectionResolvesNames ==
    \A posts \in PostsTables, stmt \in JoinProjections, cols \in JoinColumnLists :
        LET star == _execute_select_with_join(self, posts, stmt[1], stmt[2], <<"*">>, stmt[3])
            r == _execute_select_with_join(self, posts, stmt[1], stmt[2], cols, stmt[3])
            Resolves(row, c, key) ==
                /\ key \in DOMAIN row
                /\ IF c \in DOMAIN row THEN key = c ELSE ends_with(key, c)
        IN  IF \E i \in 1..Len(star.rows), j \in 1..Len(cols) :
                  \A key \in DOMAIN star.rows[i] : ~Resolves(star.rows[i], cols[j], key)
            THEN r.raised = "ColumnNotFoundError"
            ELSE /\ r.raised = "None"
                 /\ Len(r.rows) = Len(star.rows)
                 /\ \A i \in 1..Len(r.rows) :
                       /\ \A j \in 1..Len(cols) : \E key \in DOMAIN r.rows[i] :
                             /\ Resolves(star.rows[i], cols[j], key)
                             /\ r.rows[i][key] = star.rows[i][key]
                       /\ \A key \in DOMAIN r.rows[i] : \E j \in 1..Len(cols) :
                             Resolves(star.rows[i], cols[j], key)

C14_Witness ==
    \E posts \in PostsTables, stmt \in JoinProjections :
        LET r == _execute_select_with_join(self, posts, stmt[1], stmt[2], <<"user_id", "age">>, stmt[3])
            id == _execute_select_with_join(self, posts, stmt[1], stmt[2], <<"id">>, stmt[3])
            zzz == _execute_select_with_join(self, posts, stmt[1], stmt[2], <<"posts.id", "zzz">>, stmt[3])
        IN  /\ r.raised = "None"
            /\ Len(r.rows) = 2
            /\ DOMAIN r.rows[1] = {"posts.user_id", "users.age"}
            /\ id.raised = "None"
            /\ DOMAIN id.rows[1] = {"users.id"}
            /\ zzz.raised = "ColumnNotFoundError"

-----------------------------------------------------------------------------
(* SELECT without a join: projection *)

\* column lists naming a column that no row of users has
AbsentColumnLists == {<<UNKNOWN_COLUMN>>, <<"id", UNKNOWN_COLUMN>>}

\* C15: a single-table SELECT that lists a column name absent from a matching
\* row fails with ColumnNotFoundError; it does not return rows that lack the
\* requested column.
C15_AbsentColumnFails ==
    \A cols \in AbsentColumnLists, where \in StatementWheres :
        LET m == get_matching_rows(self, where)
            r == _execute_select(self, cols, where)
        IN  (m.raised = "None" /\ Len(m.rows) > 0) =>
                /\ r.raised = "ColumnNotFoundError"
                /\ \A i \in 1..Len(r.rows) : UNKNOWN_COLUMN \in DOMAIN r.rows[i]

-----------------------------------------------------------------------------
(* Comparisons with NULL *)

\* operands that can be NULL, and others to compare them with
NullableOperands == {Literal(NULL), Literal(1), Literal(11), Col("email"), Col("age")}

NullComparisons ==
    {Comparison(l, o, r) : l \in NullableOperands, o \in ComparisonOp, r \in NullableOperands}

\* WHERE column <operator> literal for the operators other than !=
ColumnTests ==
    {Comparison(Col(c), o, Literal(v)) :
        c \in ColumnNames, o \in ComparisonOp \ {"!="}, v \in {NULL, 1}}

-----------------------------------------------------------------------------
(* Missing columns and short-circuit *)

\* comparisons with a reference to a column that no row of users has
MissingComparisons ==
    {Comparison(Col(UNKNOWN_COLUMN), "=", Literal(1)),
     Comparison(Literal(1), "<", Col(UNKNOWN_COLUMN)),
     Comparison(Col("id"), "=", Col(UNKNOWN_COLUMN)),
     Comparison(Literal(NULL), "!=", ColumnRef(UNKNOWN_COLUMN, TABLE_NAME))}

\* comparisons whose columns every row of users has
PresentComparisons ==
    {Comparison(Col("id"), "=", Literal(1)),
     Comparison(Col("age"), "<", Literal(2)),
     Comparison(Col("email"), "!=", Literal(NULL))}

\* C17: evaluate raises ColumnNotFoundError when it evaluates a comparison
\* that refers to a column the row does not contain; it evaluates the right
\* operand of AND only when the left one is true and the right operand of OR
\* only when the left one is false, so "false AND missing" is false and
\* "true OR missing" is true without raising, while with the operands
\* swapped both raise.
C17_NotFoundAndShortCircuit ==
    \A i \in LivePositions(self), missing \in MissingComparisons :
        LET row == _strip_internal_id(_rows[i])
            NotFound(c) == evaluate(c, row).raised = "ColumnNotFoundError"
        IN  /\ NotFound(missing)
            /\ \A present \in PresentComparisons :
                  LET left == evaluate(present, row)
                      and == evaluate(LogicalCondition(present, "AND", missing), row)
                      or == evaluate(LogicalCondition(present, "OR", missing), row)
                  IN  /\ left.raised = "None"
                      /\ IF left.value
                         THEN /\ and.raised = "ColumnNotFoundError"
                              /\ or = [raised |-> "None", value |-> TRUE]
                         ELSE /\ and = [raised |-> "None", value |-> FALSE]
                              /\ or.raised = "ColumnNotFoundError"
                      /\ NotFound(LogicalCondition(missing, "AND", present))
                      /\ NotFound(LogicalCondition(missing, "OR", present))

C17_Witness ==
    \E i, j \in LivePositions(self) :
        LET missing == Comparison(Col(UNKNOWN_COLUMN), "=", Literal(1))
            present == Comparison(Col("id"), "=", Literal(1))
        IN  /\ evaluate(LogicalCondition(present, "AND", missing),
                        _strip_internal_id(_rows[i])) = [raised |-> "None", value |-> FALSE]
            /\ evaluate(LogicalCondition(present, "OR", missing),
                        _strip_internal_id(_rows[j])) = [raised |-> "None", value |-> TRUE]
            /\ evaluate(LogicalCondition(missing, "OR", present),
                        _strip_internal_id(_rows[j])).raised = "ColumnNotFoundError"

-----------------------------------------------------------------------------
(* The internal row identifier *)

\* the row has the internal identifier under a bare or a table-qualified key
HasInternalId(row) ==
    \/ ROW_ID \in DOMAIN row
    \/ \E table_name \in TableNames : qualified_key(table_name, ROW_ID) \in DOMAIN row

\* column lists of single-table statements, one of them asking for '_row_id'
SelectColumnLists == {<<"*">>, <<"id", "email">>, <<"id", ROW_ID>>}

\* column lists of joined statements, one of them asking for '_row_id'
JoinedSelectColumnLists == {<<"*">>, <<"id", "user_id">>, <<"users._row_id">>, <<ROW_ID>>}

\* C18: no row returned by get_row, scan, get_matching_rows or a SELECT
\* statement (single-table or joined, projected or '*') contains the
\* internal row identifier, under a bare or a table-qualified key.
C18_NoInternalIdInResults ==
    /\ \A row_id \in RowIds :
          get_row(self, row_id).found => ~HasInternalId(get_row(self, row_id).row)
    /\ \A i \in 1..Len(scan(self)) : ~HasInternalId(scan(self)[i])
    /\ \A where \in StatementWheres :
          /\ \A i \in 1..Len(get_matching_rows(self, where).rows) :
                ~HasInternalId(get_matching_rows(self, where).rows[i])
          /\ \A cols \in SelectColumnLists :
                LET r == _execute_select(self, cols, where)
                IN  \A i \in 1..Len(r.rows) : ~HasInternalId(r.rows[i])
    /\ \A posts \in PostsTables, stmt \in JoinProjections, cols \in JoinedSelectColumnLists :
          LET r == _execute_select_with_join(self, posts, stmt[1], stmt[2], cols, stmt[3])
          IN  \A i \in 1..Len(r.rows) : ~HasInternalId(r.rows[i])

C18_Witness ==
    /\ \E i \in 1..Len(_rows) : ROW_ID \in DOMAIN _rows[i] /\ get_row(self, _rows[i][ROW_ID]).found
    /\ _deleted_row_ids /= {}
    /\ Len(scan(self)) = 1
    /\ Len(get_matching_rows(self, Comparison(Col("id"), "=", Literal(1))).rows) = 1
    /\ _execute_select(self, <<"id", ROW_ID>>, NoCondition).rows = <<("id" :> 1)>>
    /\ \E posts \in PostsTables, stmt \in JoinProjections :
          Len(_execute_select_with_join(self, posts, stmt[1], stmt[2], <<"*">>, stmt[3]).rows) = 2

-----------------------------------------------------------------------------
(* NOT NULL *)

\* the columns that are NOT NULL, the primary key among them
RequiredColumns == {c \in ColumnNames : is_not_null(columns[c])}

NoNullInRequiredColumns ==
    \A id \in LiveIds, c \in RequiredColumns : RowOf(id)[c] /= NULL

\* row_data names known columns only and every value given has the type of
\* its column
TypesFit(d) ==
    /\ DOMAIN d \subseteq ColumnNames
    /\ \A c \in ColumnNames :
          validate_value_for_type(Complete(d)[c], columns[c].data_type, columns[c].max_length) = "None"

\* the assignment gives a NOT NULL column None
AssignsNull(a) == a[1] \in RequiredColumns /\ a[2] = NULL

\* C19: no live row holds NULL in a NOT NULL or PRIMARY KEY column; an
\* insert_row whose row has NULL there, given or filled in for a column left
\* out, and an update_row of a live row that assigns NULL there both fail
\* and change nothing, with ConstraintViolationError when no other check of
\* the call fails.
C19_NoNullInRequiredColumns ==
    [][/\ NoNullInRequiredColumns'
       /\ (/\ op'.name = "insert_row"
           /\ \E c \in RequiredColumns : Complete(op'.args[1])[c] = NULL) =>
             /\ raised' /= "None"
             /\ TableUnchanged
             /\ TypesFit(op'.args[1]) => raised' = "ConstraintViolationError"
       /\ (/\ op'.name = "update_row"
           /\ op'.args[1] \in LiveIds
           /\ \E k \in 1..Len(op'.args[2]) : AssignsNull(op'.args[2][k])) =>
             /\ raised' /= "None"
             /\ TableUnchanged
             /\ (\A k \in 1..Len(op'.args[2]) :
                    \/ AssignsNull(op'.args[2][k])
                    \/ /\ AssignmentValid(op'.args[2][k])
                       /\ ~AssignmentCollides(op'.args[1], op'.args[2][k]))
                 => raised' = "ConstraintViolationError"]_vars

\* insert_row has just refused a row that leaves the NOT NULL column age out
C19_Witness ==
    /\ op.name = "insert_row"
    /\ raised = "ConstraintViolationError"
    /\ DOMAIN op.args[1] = {"id", "email"}
    /\ HeldBy(PrimaryKey, op.args[1]["id"]) = {}
    /\ LiveIds /= {}

-----------------------------------------------------------------------------
(* Mandatory indexes *)

\* every PRIMARY KEY and every UNIQUE column has an index
MandatoryIndexesExist == UniqueColumns \subseteq DOMAIN _indexes

\* C20: every PRIMARY KEY and UNIQUE column has an index, from the creation
\* of the table on; drop_index on such a column raises ValueError and leaves
\* the index and its contents in place; drop_index on another column removes
\* its index, has_index is false for it afterwards, and the rows and the
\* other indexes are unchanged.
C20_MandatoryIndexesStay ==
    [][/\ MandatoryIndexesExist
       /\ MandatoryIndexesExist'
       /\ op'.name = "drop_index" =>
             IF op'.args[1] \in UniqueColumns
             THEN raised' = "ValueError" /\ TableUnchanged
             ELSE /\ raised' = "None"
                  /\ ~has_index(selfNext, op'.args[1])
                  /\ DOMAIN _indexes' = (DOMAIN _indexes) \ {op'.args[1]}
                  /\ \A c \in DOMAIN _indexes' : _indexes'[c] = _indexes[c]
                  /\ UNCHANGED <<columns, _rows, _next_row_id, _deleted_row_ids>>]_vars

\* drop_index has just been refused for the primary key, whose index holds
\* the live rows
C20_Witness ==
    /\ op.name = "drop_index"
    /\ op.args = <<"id">>
    /\ raised = "ValueError"
    /\ Cardinality(LiveIds) = 2
    /\ DOMAIN _indexes = {"id", "email", "age"}
    /\ \A id \in LiveIds : HashIndex_search(_indexes["id"], RowOf(id)["id"]) = <<id>>

-----------------------------------------------------------------------------
(* SpecDatabase: a Database, the tables created in it and the statements    *)
(* executed on it.  The calls are recorded in op, raised and returned; the  *)
(* table object of the other specifications is not used here.               *)

\* a name of 65 characters
LongName == "a2345678901234567890123456789012345678901234567890123456789012345"

\* CREATE TABLE with two PRIMARY KEY columns
TwoPrimaryKeys ==
    <<[name |-> "id", data_type |-> "INTEGER", max_length |-> NULL, constraints |-> {PRIMARY_KEY}],
      [name |-> "user_id", data_type |-> "INTEGER", max_length |-> NULL, constraints |-> {PRIMARY_KEY}]>>

\* the arguments of create_table: name, columns
CreateTableInputs ==
    {<<TABLE_NAME, ColumnList(UsersColumns)>>, <<POSTS_NAME, PostsColumnList>>,
     <<TABLE_NAME, <<>>>>, <<"accounts", <<>>>>, <<"accounts", TwoPrimaryKeys>>,
     <<"", PostsColumnList>>, <<"select", PostsColumnList>>, <<"1st", PostsColumnList>>,
     <<LongName, PostsColumnList>>}

DropTableInputs == {TABLE_NAME, POSTS_NAME, "accounts"}

\* the statements that name the table
StatementsOn(table_name) ==
    {<<"CREATE INDEX", table_name, "id">>,
     <<"INSERT", table_name, ("id" :> 1)>>,
     <<"SELECT", table_name, <<"*">>, NoCondition>>,
     <<"SELECT", table_name, <<"id">>, Comparison(Col("id"), "=", Literal(1))>>,
     <<"UPDATE", table_name, <<<<"id", 1>>>>, NoCondition>>,
     <<"DELETE", table_name, NoCondition>>,
     <<"DROP TABLE", table_name>>,
     <<"SELECT JOIN", table_name, POSTS_NAME, ColumnRef("id", table_name),
       ColumnRef("id", POSTS_NAME), <<"*">>, NoCondition>>,
     <<"SELECT JOIN", POSTS_NAME, table_name, ColumnRef("id", POSTS_NAME),
       ColumnRef("id", table_name), <<"*">>, NoCondition>>}

\* the statements that are executed
DatabaseStatements ==
    {<<"INSERT", TABLE_NAME, ("id" :> 1) @@ ("age" :> 1)>>,
     <<"INSERT", TABLE_NAME, ("id" :> 2) @@ ("email" :> 11) @@ ("age" :> 1)>>,
     <<"INSERT", POSTS_NAME, PostRow(1, 1)>>,
     <<"CREATE INDEX", TABLE_NAME, "age">>,
     <<"UPDATE", TABLE_NAME, <<<<"age", 2>>>>, Comparison(Col("id"), "=", Literal(1))>>,
     <<"DELETE", TABLE_NAME, Comparison(Col("id"), "=", Literal(1))>>,
     <<"SELECT", TABLE_NAME, <<"*">>, NoCondition>>,
     <<"SELECT JOIN", TABLE_NAME, POSTS_NAME, ColumnRef("id", TABLE_NAME),
       ColumnRef("user_id", POSTS_NAME), <<"*">>, NoCondition>>,
     <<"CREATE TABLE", POSTS_NAME, PostsColumnList>>,
     <<"DROP TABLE", POSTS_NAME>>}

\* the call that was made on the database, and the database after it
DbCall(name, args, o) ==
    /\ op' = [name |-> name, args |-> args]
    /\ _tables' = o.db
    /\ raised' = o.raised
    /\ returned' = o.returned
    /\ UNCHANGED <<columns, _rows, _next_row_id, _deleted_row_ids, _indexes, _index>>

CreateTable ==
    \E call \in CreateTableInputs :
        DbCall("create_table", call, create_table(_tables, call[1], call[2]))

DropTable ==
    \E table_name \in DropTableInputs :
        DbCall("drop_table", <<table_name>>, drop_table(_tables, table_name))

\* a statement is executed; INSERT while the table has given out fewer than
\* MaxRows row ids
Execute ==
    \E stmt \in DatabaseStatements :
        /\ (stmt[1] = "INSERT" /\ stmt[2] \in DOMAIN _tables) =>
              _tables[stmt[2]]._next_row_id < MaxRows
        /\ DbCall("execute", stmt, execute(_tables, stmt))

NextDatabase == CreateTable \/ DropTable \/ Execute

SpecDatabase == Init /\ [][NextDatabase]_vars

\* C21: create_table with a registered name fails with
\* TableAlreadyExistsError; a create_table that fails (registered name,
\* invalid identifier, no columns, two PRIMARY KEY columns) leaves the
\* registry as it was: no table is added and every registered table keeps
\* its rows and indexes; a create_table that succeeds adds the one table.
C21_FailedCreateTableChangesNothing ==
    [][op'.name = "create_table" =>
          LET table_name == op'.args[1]
              column_list == op'.args[2]
          IN  /\ has_table(_tables, table_name) => raised' = "TableAlreadyExistsError"
              /\ table_name \in {"", "select", "1st", LongName} =>
                    raised' = "InvalidIdentifierError"
              /\ (table_name = "accounts" /\ column_list \in {<<>>, TwoPrimaryKeys}) =>
                    raised' = "ValueError"
              /\ raised' /= "None" => _tables' = _tables
              /\ raised' = "None" =>
                    /\ ~has_table(_tables, table_name)
                    /\ DOMAIN _tables' = DOMAIN _tables \cup {table_name}
                    /\ \A n \in DOMAIN _tables : _tables'[n] = _tables[n]]_vars

\* create_table has just been refused for users, which holds a row
C21_Witness ==
    /\ op.name = "create_table"
    /\ op.args[1] = TABLE_NAME
    /\ op.args[2] /= <<>>
    /\ raised = "TableAlreadyExistsError"
    /\ has_table(_tables, TABLE_NAME)
    /\ row_count(_tables[TABLE_NAME]) = 1
    /\ _tables[TABLE_NAME]._deleted_row_ids /= {}
    /\ has_index(_tables[TABLE_NAME], "age")

\* C22: drop_table of a registered table removes it and nothing else;
\* drop_table of an unregistered name raises TableNotFoundError and changes
\* nothing; while a name is not registered has_table is false and
\* get_table and every statement naming the table raise
\* TableNotFoundError and change nothing; a name becomes registered again
\* only by a creation, and the table then has no rows, no deleted ids, row
\* ids starting at 0 and empty indexes on its PRIMARY KEY / UNIQUE columns
\* only.
C22_DroppedTableIsGoneUntilCreated ==
    [][/\ op'.name = "drop_table" =>
             IF has_table(_tables, op'.args[1])
             THEN /\ raised' = "None"
                  /\ DOMAIN _tables' = (DOMAIN _tables) \ {op'.args[1]}
                  /\ \A n \in DOMAIN _tables' : _tables'[n] = _tables[n]
             ELSE raised' = "TableNotFoundError" /\ _tables' = _tables
       /\ \A table_name \in DropTableInputs :
             ~has_table(_tables', table_name) =>
                /\ get_table(_tables', table_name).raised = "TableNotFoundError"
                /\ \A stmt \in StatementsOn(table_name) :
                      /\ execute(_tables', stmt).raised = "TableNotFoundError"
                      /\ execute(_tables', stmt).db = _tables'
       /\ \A table_name \in DOMAIN _tables' :
             ~has_table(_tables, table_name) =>
                LET t == _tables'[table_name]
                IN  /\ \/ op'.name = "create_table" /\ op'.args[1] = table_name
                       \/ /\ op'.name = "execute"
                          /\ op'.args[1] = "CREATE TABLE" /\ op'.args[2] = table_name
                    /\ t._rows = <<>>
                    /\ t._next_row_id = 0
                    /\ t._deleted_row_ids = {}
                    /\ row_count(t) = 0
                    /\ DOMAIN t._indexes = {c \in DOMAIN t.columns : is_unique(t.columns[c])}
                    /\ \A c \in DOMAIN t._indexes : t._indexes[c] = EmptyDict]_vars

\* users has just been dropped while posts, which holds a row, stays
C22_Witness ==
    /\ op.name = "drop_table"
    /\ op.args = <<TABLE_NAME>>
    /\ raised = "None"
    /\ ~has_table(_tables, TABLE_NAME)
    /\ has_table(_tables, POSTS_NAME)
    /\ row_count(_tables[POSTS_NAME]) = 1

-----------------------------------------------------------------------------
(* row_count and scan *)

\* C23: row_count() is the number of rows scan() yields; it is 0 for a new
\* table, grows by one with every insert_row that succeeds, shrinks by one
\* with every delete_row that returns True, and is left as it is by a
\* failed insert_row, a delete_row that returns False and every update_row;
\* so it is the number of successful inserts minus that of the deletions
\* that returned True.
C23_RowCountCountsLiveRows ==
    [][/\ row_count(self) = Len(scan(self))
       /\ row_count(selfNext) = Len(scan(selfNext))
       /\ op.name = "Table" => row_count(self) = 0
       /\ op'.name = "insert_row" =>
             row_count(selfNext) = row_count(self) + (IF raised' = "None" THEN 1 ELSE 0)
       /\ op'.name = "delete_row" =>
             /\ returned' \in {0, 1}
             /\ row_count(selfNext) = row_count(self) - returned'
       /\ op'.name \in {"update_row", "create_index", "drop_index"} =>
             row_count(selfNext) = row_count(self)]_vars

\* delete_row has just returned True for one of two rows; the other was
\* updated before
C23_Witness ==
    /\ op.name = "delete_row"
    /\ returned = 1
    /\ Len(_rows) = 2
    /\ row_count(self) = 1
    /\ \E id \in LiveIds : RowOf(id)["age"] = 2

-----------------------------------------------------------------------------
(* Typed values: a table with one column of each data type, reached through *)
(* the database, takes insert_row and update_row calls with values of every *)
(* kind.                                                                    *)

TYPED_NAME == "typed"
VarcharBound == 2

\* CREATE TABLE typed(n INTEGER, x FLOAT, flag BOOLEAN, code VARCHAR(2), note TEXT)
TypedColumnList ==
    <<[name |-> "n", data_type |-> "INTEGER", max_length |-> NULL, constraints |-> {}],
      [name |-> "x", data_type |-> "FLOAT", max_length |-> NULL, constraints |-> {}],
      [name |-> "flag", data_type |-> "BOOLEAN", max_length |-> NULL, constraints |-> {}],
      [name |-> "code", data_type |-> "VARCHAR", max_length |-> VarcharBound, constraints |-> {}],
      [name |-> "note", data_type |-> "TEXT", max_length |-> NULL, constraints |-> {}]>>

TypedColumnNames == {"n", "x", "flag", "code", "note"}

\* 1, 'aa', 'aaa', 1.5, True and None
TypedValues == {NULL, 1, 12, 13, 21, TRUE_VALUE}

\* the values given to insert_row: 1, 'aaa' and True
InsertedValues == {1, 13, TRUE_VALUE}

DataTypes == {"INTEGER", "FLOAT", "BOOLEAN", "VARCHAR", "TEXT"}
MaxLengths == {NULL, 1, 2, 3}
\* 1, 'a', 'aa', 'aaa', 1.5, False and True
ValuesOfEveryKind == {1, 11, 12, 13, 21, FALSE_VALUE, TRUE_VALUE}

InitTypes ==
    LET t == Table_init(TABLE_NAME, ColumnList(UsersColumns))
    IN  /\ columns = t.columns
        /\ _rows = t._rows
        /\ _next_row_id = t._next_row_id
        /\ _deleted_row_ids = t._deleted_row_ids
        /\ _indexes = t._indexes
        /\ _tables = (TYPED_NAME :> Table_init(TYPED_NAME, TypedColumnList))
        /\ _index = EmptyDict
        /\ op = [name |-> "Table", args |-> <<>>]
        /\ raised = "None"
        /\ returned = -1

TypedInsert ==
    \E c \in TypedColumnNames, value \in InsertedValues :
        /\ _tables[TYPED_NAME]._next_row_id < MaxRows
        /\ DbCall("insert_row", <<(c :> value)>>,
                  on_table(_tables, TYPED_NAME, insert_row(_tables[TYPED_NAME], (c :> value))))

TypedUpdate ==
    \E c \in TypedColumnNames, value \in TypedValues :
        DbCall("update_row", <<0, <<<<c, value>>>>>>,
               on_table(_tables, TYPED_NAME,
                        update_row(_tables[TYPED_NAME], 0, <<<<c, value>>>>)))

\* validate_value_for_type reads no state: its calls are explored on the table
\* that has taken no row yet
Validate ==
    \E value \in ValuesOfEveryKind, data_type \in DataTypes, max_length \in MaxLengths :
        /\ _tables[TYPED_NAME]._next_row_id = 0
        /\ DbCall("validate_value_for_type", <<value, data_type, max_length>>,
                  DbOutcome(_tables, validate_value_for_type(value, data_type, max_length), -1))

NextTypes == TypedInsert \/ TypedUpdate \/ Validate

SpecTypes == InitTypes /\ [][NextTypes]_vars

\* the kind of a non-null value
KindOf(v) ==
    CASE v \in 1..9 -> "integer"
      [] v \in 11..19 -> "string"
      [] v \in 21..29 -> "float"
      [] v \in {FALSE_VALUE, TRUE_VALUE} -> "boolean"

\* the values a declared type takes, in the words of the type rules
Accepts(data_type, v, bound) ==
    CASE data_type = "INTEGER" -> KindOf(v) = "integer"
      [] data_type = "BOOLEAN" -> KindOf(v) = "boolean"
      [] data_type = "FLOAT" -> KindOf(v) \in {"float", "integer"}
      [] data_type = "TEXT" -> KindOf(v) = "string"
      [] data_type = "VARCHAR" -> KindOf(v) = "string" /\ (bound = NULL \/ v - 10 <= bound)

TypedColumn(c) == _tables[TYPED_NAME].columns[c]

\* the column and the value that a recorded insert_row or update_row call gives
GivenColumn(o) ==
    IF o.name = "insert_row" THEN CHOOSE c \in DOMAIN o.args[1] : TRUE ELSE o.args[2][1][1]

GivenValue(o) ==
    IF o.name = "insert_row" THEN o.args[1][GivenColumn(o)] ELSE o.args[2][1][2]

\* C25: validation accepts a non-null value exactly when its kind matches the
\* declared type (INTEGER: integers, not booleans, floats or strings; BOOLEAN:
\* booleans only; VARCHAR and TEXT: strings only; FLOAT: floats and integers,
\* not booleans; VARCHAR: no longer than the declared bound, the bound's
\* length included), and insert_row and update_row never store a rejected
\* value: such a call raises the type error and leaves the table as it was,
\* and every stored non-null value is one that its column's type accepts.
C25_ValidationMatchesKinds ==
    [][/\ op'.name = "validate_value_for_type" =>
              /\ raised' = IF Accepts(op'.args[2], op'.args[1], op'.args[3])
                           THEN "None" ELSE "TypeValidationError"
              /\ _tables' = _tables
       /\ op'.name \in {"insert_row", "update_row"} =>
              LET column == TypedColumn(GivenColumn(op'))
                  value == GivenValue(op')
              IN  (value /= NULL /\ ~Accepts(column.data_type, value, column.max_length)) =>
                      /\ _tables' = _tables
                      /\ (op'.name = "insert_row" \/ _tables[TYPED_NAME]._rows /= <<>>) =>
                             raised' = "TypeValidationError"
       /\ \A i \in 1..Len(_tables'[TYPED_NAME]._rows), c \in TypedColumnNames :
              LET value == _tables'[TYPED_NAME]._rows[i][c]
              IN  value = NULL \/ Accepts(TypedColumn(c).data_type, value, TypedColumn(c).max_length)]_vars

C25_Witness ==
    /\ op = [name |-> "update_row", args |-> <<0, <<<<"code", 13>>>>>>]
    /\ raised = "TypeValidationError"
    /\ _tables[TYPED_NAME]._rows[1]["code"] = 12
    /\ _tables[TYPED_NAME]._rows[1]["x"] = 1
    /\ _tables[TYPED_NAME]._rows[1]["flag"] = TRUE_VALUE

-----------------------------------------------------------------------------
(* A HashIndex used on its own: insert, delete, clear, search and           *)
(* get_all_keys calls, and a caller that changes the list search returned.  *)

MaxEntries == 3         \* insert is explored while the index holds fewer row ids

IndexKeys == {NULL, 1, 2}
IndexRowIds == 0..(MaxRows - 1)

RECURSIVE SumOfLengths(_, _)
SumOfLengths(index, keys) ==
    IF keys = {} THEN 0
    ELSE LET k == CHOOSE k \in keys : TRUE
         IN  Len(index[k]) + SumOfLengths(index, keys \ {k})

\* the number of row ids that the index holds
Entries(index) == SumOfLengths(index, DOMAIN index)

IndexCall(name, args, index, exc, ret) ==
    /\ op' = [name |-> name, args |-> args]
    /\ _index' = index
    /\ raised' = exc
    /\ returned' = ret
    /\ UNCHANGED <<columns, _rows, _next_row_id, _deleted_row_ids, _indexes, _tables>>

IndexInsert ==
    \E key \in IndexKeys, row_id \in IndexRowIds :
        /\ Entries(_index) < MaxEntries
        /\ IndexCall("insert", <<key, row_id>>, HashIndex_insert(_index, key, row_id), "None", -1)

IndexDelete ==
    \E key \in IndexKeys, row_id \in IndexRowIds :
        IndexCall("delete", <<key, row_id>>, HashIndex_delete(_index, key, row_id), "None", -1)

IndexClear == IndexCall("clear", <<>>, HashIndex_clear(_index), "None", -1)

IndexSearch ==
    \E key \in IndexKeys :
        IndexCall("search", <<key>>, _index, "None", search(_index, key))

IndexGetAllKeys ==
    IndexCall("get_all_keys", <<>>, _index, "None", HashIndex_get_all_keys(_index))

\* the calls after which the caller holds the list that search returned
HoldsResult == op.name \in {"search", "append", "remove", "list.clear"}

\* result.append(row_id)
ResultAppend ==
    \E row_id \in IndexRowIds :
        /\ HoldsResult
        /\ Len(returned.items) < MaxEntries
        /\ LET r == list_set(_index, returned, Append(returned.items, row_id))
           IN  IndexCall("append", <<row_id>>, r.index, "None", r.l)

\* result.remove(row_id): ValueError when the list does not hold it
ResultRemove ==
    \E row_id \in IndexRowIds :
        /\ HoldsResult
        /\ LET r == list_set(_index, returned, list_remove(returned.items, row_id))
           IN  IF list_contains(returned.items, row_id)
               THEN IndexCall("remove", <<row_id>>, r.index, "None", r.l)
               ELSE IndexCall("remove", <<row_id>>, _index, "ValueError", returned)

\* result.clear()
ResultClear ==
    /\ HoldsResult
    /\ LET r == list_set(_index, returned, <<>>)
       IN  IndexCall("list.clear", <<>>, r.index, "None", r.l)

NextIndex ==
    \/ IndexInsert \/ IndexDelete \/ IndexClear \/ IndexSearch \/ IndexGetAllKeys
    \/ ResultAppend \/ ResultRemove \/ ResultClear

SpecIndex == Init /\ [][NextIndex]_vars

\* C26: the list that search returns is independent of the index: when the
\* caller appends to it, removes from it or clears it, every search and
\* get_all_keys on the index gives afterwards what it gave before, and so
\* does every constraint check, which asks search whether a key is held.
C26_SearchResultIsIndependent ==
    [][op'.name \in {"append", "remove", "list.clear"} =>
          /\ \A key \in IndexKeys : search(_index', key).items = search(_index, key).items
          /\ HashIndex_get_all_keys(_index') = HashIndex_get_all_keys(_index)
          /\ _index' = _index]_vars

C26_Witness ==
    /\ op = [name |-> "list.clear", args |-> <<>>]
    /\ returned.items = <<>>
    /\ 1 \in DOMAIN _index
    /\ _index[1] = <<0, 1>>

-----------------------------------------------------------------------------
(* Null keys *)

\* the keys under which an index holds a row id
KeysOf(index, row_id) == {k \in DOMAIN index : list_contains(index[k], row_id)}

\* C27: a null key is never indexed. On every index that a table reaches
\* through its calls, insert with a null key stores nothing, search(null)
\* returns the empty sequence, delete with a null key changes nothing and null
\* is not among get_all_keys; a live row whose indexed column is null is in no
\* entry of that column's index, also after an update_row that set the column
\* to null.
C27_NullIsNeverIndexed ==
    \A c \in DOMAIN _indexes :
        /\ \A row_id \in 0..MaxRows :
              /\ HashIndex_insert(_indexes[c], NULL, row_id) = _indexes[c]
              /\ HashIndex_delete(_indexes[c], NULL, row_id) = _indexes[c]
        /\ HashIndex_search(_indexes[c], NULL) = <<>>
        /\ NULL \notin HashIndex_get_all_keys(_indexes[c])
        /\ \A id \in LiveIds : RowOf(id)[c] = NULL => KeysOf(_indexes[c], id) = {}

C27_Witness ==
    /\ op = [name |-> "update_row", args |-> <<0, <<<<"email", NULL>>>>>>]
    /\ returned = 1
    /\ LiveIds = {0, 1}
    /\ RowOf(0)["email"] = NULL
    /\ _indexes["email"] = (11 :> <<1>>)

-----------------------------------------------------------------------------
(* drop_index of an index that does not exist *)

\* the Not-found errors of utils/exceptions.py
NotFoundErrors == {"TableNotFoundError", "ColumnNotFoundError", "IndexNotFoundError"}

\* C28: drop_index on a column that has no index, or on a column that is not
\* in the schema, raises a Not-found error.
C28_DropOfAbsentIndexFails ==
    [][(op'.name = "drop_index" /\ ~has_index(self, op'.args[1])) =>
          raised' \in NotFoundErrors]_vars

-----------------------------------------------------------------------------
(* HashIndex.delete *)

\* C29: under any sequence of insert, delete and clear calls on a HashIndex,
\* after delete(k, r) returns, search(k) does not contain r, and the row ids
\* that other insert calls put under k are all still returned.
C29_DeleteRemovesTheId ==
    [][op'.name = "delete" =>
          LET k == op'.args[1]
              r == op'.args[2]
          IN  /\ ~list_contains(search(_index', k).items, r)
              /\ \A other \in IndexRowIds \ {r} :
                    list_contains(search(_index, k).items, other) =>
                        list_contains(search(_index', k).items, other)]_vars

-----------------------------------------------------------------------------
(* The index calls of update_row *)

\* C30: for each assigned column that has an index, update_row removes the
\* row's mapping under the old value before it inserts the mapping under the
\* new value: after the delete call the row id is under no key of that index,
\* after no call of the operation is it under two keys of an index, and when
\* the operation ends it is under exactly the new value, under no key when the
\* new value is null.
C30_OldMappingGoesFirst ==
    [][(op'.name = "update_row" /\ raised' = "None" /\ returned' = 1) =>
          LET row_id == op'.args[1]
              updates == op'.args[2]
              old_row == _rows[find_row(self, row_id)]
              calls == apply_updates_calls(updates, 1, row_id, old_row, _indexes)
          IN  /\ \A s \in 1..Len(calls) :
                    /\ \A c \in DOMAIN calls[s].indexes :
                          Cardinality(KeysOf(calls[s].indexes[c], row_id)) <= 1
                    /\ calls[s].call = IF s % 2 = 1 THEN "delete" ELSE "insert"
                    /\ calls[s].call = "delete" =>
                          KeysOf(calls[s].indexes[calls[s].col_name], row_id) = {}
              /\ calls /= <<>> => calls[Len(calls)].indexes = _indexes'
              /\ calls = <<>> => _indexes' = _indexes
              /\ \A i \in 1..Len(updates) :
                    updates[i][1] \in DOMAIN _indexes =>
                        KeysOf(_indexes'[updates[i][1]], row_id) =
                            IF updates[i][2] = NULL THEN {} ELSE {updates[i][2]}]_vars

C30_Witness ==
    /\ op = [name |-> "update_row", args |-> <<0, <<<<"age", 2>>>>>>]
    /\ returned = 1
    /\ "age" \in DOMAIN _indexes
    /\ _indexes["age"] = (1 :> <<1>>) @@ (2 :> <<0>>)

-----------------------------------------------------------------------------
(* Row identifiers *)

-----------------------------------------------------------------------------
(* Joins on a column that the rows do not have *)

\* ON clauses whose left or right column is in no row of its table
UnresolvedJoinConditions ==
    {<<ColumnRef(UNKNOWN_COLUMN, TABLE_NAME), ColumnRef("user_id", POSTS_NAME)>>,
     <<ColumnRef("user_id", TABLE_NAME), ColumnRef("user_id", POSTS_NAME)>>,
     <<ColumnRef("id", TABLE_NAME), ColumnRef(UNKNOWN_COLUMN, POSTS_NAME)>>,
     <<ColumnRef("id", TABLE_NAME), ColumnRef("email", POSTS_NAME)>>}

\* every row of the sequence lacks the column, qualified or bare
NoRowResolves(rows, col) ==
    \A i \in 1..Len(rows) :
        get_column_value(rows[i], col.column_name, col.table_name).raised = "KeyError"

\* C32: a pairing of a left and a right row for which a join column cannot be
\* resolved is skipped without raising: a join whose left or right join column
\* is in no row of its table returns the empty result and no error, whatever
\* rows the two tables hold and whatever the WHERE clause and column list.
C32_UnresolvedJoinColumnSkips ==
    \A posts \in PostsTables, on \in UnresolvedJoinConditions,
       where \in JoinWheres, cols \in {<<"*">>, <<"id">>} :
        LET r == _execute_select_with_join(self, posts, on[1], on[2], cols, where)
        IN  /\ NoRowResolves(scan(self), on[1]) \/ NoRowResolves(scan(posts), on[2])
            /\ r.raised = "None"
            /\ r.rows = <<>>

\* users holds two live rows, to be paired with the rows of every posts table
C32_Witness ==
    /\ Len(scan(self)) = 2
    /\ \E posts \in PostsTables : Len(scan(posts)) = 2
    /\ ~NoRowResolves(scan(self), ColumnRef("id", TABLE_NAME))
    /\ NoRowResolves(scan(self), ColumnRef(UNKNOWN_COLUMN, TABLE_NAME))

-----------------------------------------------------------------------------
(* Qualified column references *)

\* a row that has the key users.id and the bare key id
MixedRow == ("users.id" :> 1) @@ ("id" :> 2) @@ ("age" :> 1)

\* WHERE table.id = v
IdEquals(table_name, v) == Comparison(ColumnRef("id", table_name), "=", Literal(v))

\* the rows of a sequence of combined rows whose key has the value
RowsWith(rows, key, v) ==
    LET Has(row) == row[key] = v
    IN  SelectSeq(rows, Has)

\* SELECT * FROM users JOIN posts ON users.id = posts.user_id WHERE ...
UsersPosts(posts, where) ==
    _execute_select_with_join(self, posts, ColumnRef("id", TABLE_NAME),
                              ColumnRef("user_id", POSTS_NAME), <<"*">>, where)

\* C33: a column reference with a table qualifier resolves to the row's
\* table.column key whenever the row has it, and only otherwise to the bare
\* column key. In the combined rows of a join of users and posts, which both
\* have a column id, WHERE users.id = v keeps the rows whose users.id is v and
\* WHERE posts.id = v those whose posts.id is v; against a row of the users
\* table alone a reference to id with any qualifier gives the row's id.
C33_QualifierResolvesOwnTable ==
    /\ get_column_value(MixedRow, "id", TABLE_NAME) = [raised |-> "None", value |-> 1]
    /\ get_column_value(MixedRow, "id", POSTS_NAME) = [raised |-> "None", value |-> 2]
    /\ get_column_value(MixedRow, "id", "None") = [raised |-> "None", value |-> 2]
    /\ get_column_value(MixedRow, "age", TABLE_NAME) = [raised |-> "None", value |-> 1]
    /\ get_column_value(MixedRow, "email", TABLE_NAME).raised = "KeyError"
    /\ \A posts \in PostsTables, table_name \in TableNames, v \in IntValues :
          /\ UsersPosts(posts, IdEquals(table_name, v)).raised = "None"
          /\ UsersPosts(posts, IdEquals(table_name, v)).rows =
                 RowsWith(UsersPosts(posts, NoCondition).rows, qualified_key(table_name, "id"), v)
    /\ \A i \in 1..Len(scan(self)), table_name \in TableNames \cup {"None"} :
          /\ get_column_value(scan(self)[i], "id", table_name) =
                 [raised |-> "None", value |-> scan(self)[i]["id"]]
          /\ \A v \in IntValues :
                 get_matching_rows(self, IdEquals(table_name, v)) =
                     get_matching_rows(self, IdEquals("None", v))

\* the user with id 2 is joined with the post with id 1, so that the two
\* qualified conditions on id keep different rows
C33_Witness ==
    LET posts == insert_all(Table_init(POSTS_NAME, PostsColumnList),
                            <<PostRow(1, 2), PostRow(2, 1)>>)
    IN  /\ Len(scan(self)) = 2
        /\ Len(UsersPosts(posts, NoCondition).rows) = 2
        /\ UsersPosts(posts, IdEquals(TABLE_NAME, 1)).rows /=
               UsersPosts(posts, IdEquals(POSTS_NAME, 1)).rows
        /\ Len(UsersPosts(posts, IdEquals(POSTS_NAME, 1)).rows) = 1

-----------------------------------------------------------------------------
(* The order of the rows that the planner returns *)

\* C34: get_matching_rows returns its rows in the order of scan() also when it
\* answers through an index, so that the result is the same, order included,
\* with and without an index on the filtered column.
C34_IndexKeepsScanOrder ==
    \A v \in IntValues :
        LET P == Comparison(ColumnRef("age", "None"), "=", Literal(v))
            m == get_matching_rows(self, P)
        IN  /\ m.rows = filter_rows(P, scan(self), <<>>).rows
            /\ m.rows = get_matching_rows(drop_index(self, "age").t, P).rows

-----------------------------------------------------------------------------
(* UPDATE statements that raise *)

\* C35: an UPDATE statement that raises while it processes one of its matching
\* rows has changed no row: rows and indexes are as they were before it.
C35_FailedUpdateChangesNothing ==
    [][(op'.name = "UPDATE" /\ raised' /= "None") =>
          /\ _rows' = _rows
          /\ _indexes' = _indexes]_vars

-----------------------------------------------------------------------------
(* The join condition and the evaluator's equality *)

\* C36: a joined SELECT combines a left and a right row only when the
\* evaluator's '=' comparison of their join-column values is true: every
\* combined row satisfies ON as a condition; two null join values do not.
C36_JoinUsesEvaluatorEquality ==
    \A posts \in PostsTables, on \in JoinConditions :
        LET r == _execute_select_with_join(self, posts, on[1], on[2], <<"*">>, NoCondition)
        IN  \A i \in 1..Len(r.rows) :
                /\ evaluate(Comparison(on[1], "=", on[2]), r.rows[i]).value
                /\ r.rows[i][qualified_key(on[1].table_name, on[1].column_name)] /= NULL

-----------------------------------------------------------------------------
(* UPDATE statements with assignments that no row can take *)

\* C37: an UPDATE statement that assigns a column that is not in the table
\* fails with ColumnNotFoundError, and one that assigns the primary-key column
\* with ConstraintViolationError, whether or not a live row matches its WHERE
\* clause, also on the empty table.
C37_BadAssignmentAlwaysFails ==
    \A where \in WhereClauses :
        /\ _execute_update(self, <<<<UNKNOWN_COLUMN, 1>>>>, where).raised = "ColumnNotFoundError"
        /\ is_primary_key(columns["id"]) =>
               _execute_update(self, <<<<"id", 1>>>>, where).raised = "ConstraintViolationError"

-----------------------------------------------------------------------------
(* create_index on an indexed or unknown column *)

\* C38: create_index on a column that already has an index, mandatory or
\* created earlier, raises nothing and changes nothing: the index and its
\* contents are kept as they are. create_index on a column that is not in the
\* schema raises ColumnNotFoundError and adds no index.
C38_CreateIndexKeepsExistingIndex ==
    [][/\ op'.name = "create_index" =>
             /\ op'.args[1] \in DOMAIN _indexes => raised' = "None" /\ TableUnchanged
             /\ op'.args[1] \notin ColumnNames =>
                    raised' = "ColumnNotFoundError" /\ TableUnchanged
       /\ \A c \in DOMAIN _indexes' :
             create_index(selfNext, c) = Outcome(selfNext, "None", -1)
       /\ create_index(selfNext, UNKNOWN_COLUMN) = Outcome(selfNext, "ColumnNotFoundError", -1)]_vars

\* create_index('age') has met an index on age whose entry for 2 lists row 1
\* before row 0, as the updates left it and as building it again would not
C38_Witness ==
    /\ op = [name |-> "create_index", args |-> <<"age">>]
    /\ raised = "None"
    /\ "age" \in DOMAIN _indexes
    /\ _indexes["age"] = (2 :> <<1, 0>>)

=============================================================================
